---- MODULE Spec2Model ----
(***************************************************************************)
(* A model of backend/server.js: the singleton browser lifecycle           *)
(* (initializeBrowser and its callers), the reply wait                     *)
(* (waitForResponseStable) and the send pipeline of POST /chat.            *)
(*                                                                         *)
(* JavaScript runs one callback at a time.  A step of the model is the     *)
(* synchronous code between two awaits.  A continuation of an already      *)
(* settled promise is a microtask: it runs before any I/O completion, any  *)
(* timer and any new request (MicrotaskPending).                           *)
(***************************************************************************)
EXTENDS Integers, Sequences, FiniteSets, TLC

(* ------------------------------ bounds -------------------------------- *)
\* concurrent request handlers
NProcs == 2
\* initializations (and so browser launches) a run may start
MaxInits == 3
\* the timeout of a reply wait, in poll intervals of 500 ms
WaitTimeout == 3
\* turns of a transcript
MaxTurns == 2
\* characters of a message
MaxMsgLen == 2
\* entries of a transcript handed to getLatestAI and getNthAI
MaxEntries == 5
\* cookies of a session file and of a page
MaxCookies == 2
\* the last second of the clock, which starts at 2
MaxClock == 3
\* the largest maxRetries of a gotoWithRetries call
MaxRetries == 3
\* the largest maxWaitTime of a waitForPageReady call, in waits of 2000 ms
MaxReadyWait == 2
\* maxWait of checkSecurityVerification, in waits of 3000 ms (the code: 40)
SecMaxWait == 2
\* the largest retries option of a waitAndClick call
MaxClickRetries == 3

Procs == 1..NProcs
\* process 0 is startServer (server.js:1662)
Starter == 0
AllProcs == {Starter} \cup Procs
InitIds == 1..MaxInits

(* ------------------------------- state -------------------------------- *)
VARIABLES
    \* server.js:357-361; a handle is the id of the initialization that
    \* launched it, 0 is null
    globalBrowser, globalContext, globalPage, isInitializing, initializationPromise,
    \* the async closures of server.js:717-903, one per initializeBrowser run
    \* that took the slow path: where each one is
    initPc,
    \* number of initializations started so far (each calls puppeteer.launch once)
    nInits,
    \* the browser processes: "none" or "live" for each launch (no code path
    \* calls browser.close())
    browserState,
    \* page.isClosed() of the page of each browser
    pageClosed,
    \* app.listen was called (server.js:1674)
    listening,
    \* the handlers: position, endpoint, what they await, the page they hold
    cpc, ckind, cwait, cpage,
    \* the promise a handler joined or started at its last initializeBrowser call
    cjoined,
    \* one run of waitForResponseStable (server.js:414-438): position, the
    \* locals last and stableCount, the time since start in poll intervals,
    \* the value returned
    wpc, wLast, wStable, wElapsed, wResult,
    \* what the last two polls of that run observed, in order; whether every
    \* poll so far saw another latest assistant text than the poll before it;
    \* whether the run ended at its timeout; whether an in-page evaluation
    \* failed during the run
    wLog, wAllChanged, wTimedOut, wEvalFailed,
    \* the content of the input surface of the shared page
    pInput,
    \* POST /chat, per handler: req.body.message, the loop index i of the
    \* typing loop, the strategy that set messageSent ("none": messageSent
    \* is false), the submissions its send attempts caused on the page, the
    \* kind of response and the reply text in it
    cmsg, ctyped, csent, csubs, cout, cresp,
    \* POST /chat, per handler: whether req.body.image is given, the temporary
    \* files of the request that are on disk, whether the request navigated
    \* to the target and no snapshot was written to SESSION_FILE since
    cimage, ctmp, cnav,
    \* one call of getLatestAI or getNthAI (server.js:383-399): the arguments
    \* messages and n, which of the two was called, and the value returned
    fMessages, fN, fpc, fResult,
    \* the content of SESSION_FILE, the backup files written by saveSession,
    \* the time in seconds
    sFile, backups, clock,
    \* the page of the initialization: its cookies, localStorage, url and
    \* whether it is closed
    sPage,
    \* the run of loadSession of the initialization: its position and locals;
    \* the same run on the session file of the other shape
    ld, twin,
    \* where the initialization is in its session steps; whether a navigation
    \* to the target succeeded and no snapshot was written to SESSION_FILE since
    ipc, navUnsaved,
    \* the calls of exportSession and saveSession: position, which of the two,
    \* the snapshot being extracted, the success flag returned
    xpc, xkind, xsnap, xret,
    \* the turn texts the page renders, oldest first, and how many of them
    \* were there before the last message was submitted
    pTurns, pBase,
    \* one call of gotoWithRetries (server.js:496-549) and one call of
    \* waitForPageReady (server.js:552-614): position and locals
    goRun, readyRun,
    \* one call of checkSecurityVerification (server.js:616-694): position and
    \* locals
    secRun,
    \* what the page shows to that call: the challenge fingerprints that match and
    \* whether the site's own content is there
    secPage,
    \* one call of waitAndClick (server.js:464-493): position, options and what
    \* its attempts did
    clickRun,
    \* the model selection of one POST /chat (server.js:1196-1269)
    selRun

lifeVars == <<globalBrowser, globalContext, globalPage, isInitializing,
              initializationPromise, initPc, nInits, browserState, pageClosed,
              listening, cpc, ckind, cwait, cpage, cjoined>>

waitVars == <<wpc, wLast, wStable, wElapsed, wResult, wLog, wAllChanged, wTimedOut,
              wEvalFailed>>

chatVars == <<pInput, cmsg, ctyped, csent, csubs, cout, cresp, cimage, ctmp, cnav>>

fnVars == <<fMessages, fN, fpc, fResult>>

sessVars == <<sFile, backups, clock, sPage, ld, twin, ipc, navUnsaved, xpc, xkind, xsnap, xret>>

pageVars == <<pTurns, pBase>>

gateVars == <<goRun, readyRun, secRun, secPage, clickRun, selRun>>

vars == <<lifeVars, waitVars, chatVars, fnVars, sessVars, pageVars, gateVars>>
\* what the lifecycle steps leave alone, what a reply wait leaves alone, and
\* what the steps of POST /chat after the handle leave alone
notLifeVars == <<waitVars, chatVars, fnVars, sessVars, pageVars, gateVars>>
notWaitVars == <<lifeVars, chatVars, fnVars, sessVars, pageVars, gateVars>>
notFnVars == <<lifeVars, waitVars, chatVars, sessVars, pageVars, gateVars>>
notSessVars == <<lifeVars, waitVars, chatVars, fnVars, pageVars, gateVars>>
notChatVars == <<globalBrowser, globalContext, globalPage, isInitializing,
                 initializationPromise, initPc, nInits, browserState, pageClosed,
                 listening, ckind, cwait, cpage, cjoined, waitVars, fnVars, sessVars,
                 pageVars, gateVars>>

(* ------------------------ browser lifecycle --------------------------- *)
\* the steps of one initialization, each ending at an await
InitSteps == <<"launch", "setup", "load", "goto", "ready", "check", "export">>
InFlightPcs == {"launch", "setup", "load", "goto", "ready", "check", "export"}
InFlight == {i \in InitIds : initPc[i] \in InFlightPcs}
Settled(i) == initPc[i] \in {"resolved", "rejected"}

NoWait == [type |-> "none", id |-> 0]

\* a handler sits on an await whose promise is settled (or on a plain value):
\* its continuation is queued as a microtask
Resumable(c) ==
    /\ cpc[c] \in {"await1", "await2"}
    /\ \/ cwait[c].type = "value"
       \/ cwait[c].type = "promise" /\ Settled(cwait[c].id)
MicrotaskPending == \E c \in AllProcs : Resumable(c)

\* globalPage.isClosed() as the try block of server.js:705-713 sees it
ProbeOutcomes(p) == IF pageClosed[p] THEN {"closed", "throws"} ELSE {"open"}

\* mutant: the guard of server.js:698 is missing
JoinsInFlightNever == FALSE

\* server.js:698: a call joins the initialization in flight
JoinsInFlight == isInitializing

\* mutant: the catch of server.js:710 hands the stored handle out as well
HandsOutStoredAlsoOnThrow(probe) == probe \in {"open", "throws"}

\* server.js:707: the stored handle is handed out
HandsOutStored(probe) == probe = "open"

\* initializeBrowser up to its return (server.js:697-716 and 905), called by c
\* with the globals g = <<browser, context, page>> as the caller left them
CallInitializeBrowser(c, g, nextPc) ==
    IF JoinsInFlight
    THEN /\ cwait' = [cwait EXCEPT ![c] = [type |-> "promise", id |-> initializationPromise]]
         /\ cjoined' = [cjoined EXCEPT ![c] = initializationPromise]
         /\ cpc' = [cpc EXCEPT ![c] = nextPc]
         /\ globalBrowser' = g[1] /\ globalContext' = g[2] /\ globalPage' = g[3]
         /\ UNCHANGED <<isInitializing, initializationPromise, initPc, nInits>>
    ELSE \E probe \in (IF g[1] # 0 /\ g[3] # 0 THEN ProbeOutcomes(g[3]) ELSE {"nohandle"}) :
           IF probe # "nohandle" /\ HandsOutStored(probe)
           THEN /\ cwait' = [cwait EXCEPT ![c] = [type |-> "value", id |-> g[3]]]
                /\ cjoined' = [cjoined EXCEPT ![c] = 0]
                /\ cpc' = [cpc EXCEPT ![c] = nextPc]
                /\ globalBrowser' = g[1] /\ globalContext' = g[2] /\ globalPage' = g[3]
                /\ UNCHANGED <<isInitializing, initializationPromise, initPc, nInits>>
           ELSE /\ nInits < MaxInits
                /\ nInits' = nInits + 1
                /\ isInitializing' = TRUE
                /\ initializationPromise' = nInits + 1
                /\ initPc' = [initPc EXCEPT ![nInits + 1] = "launch"]
                /\ cwait' = [cwait EXCEPT ![c] = [type |-> "promise", id |-> nInits + 1]]
                /\ cjoined' = [cjoined EXCEPT ![c] = nInits + 1]
                /\ cpc' = [cpc EXCEPT ![c] = nextPc]
                /\ globalBrowser' = g[1] /\ globalContext' = g[2] /\ globalPage' = g[3]

Globals == <<globalBrowser, globalContext, globalPage>>

\* startServer calls initializeBrowser (server.js:1662-1666)
StartServer ==
    /\ cpc[Starter] = "idle"
    /\ CallInitializeBrowser(Starter, Globals, "await1")
    /\ UNCHANGED <<browserState, pageClosed, listening, ckind, cpage>>
    /\ UNCHANGED notLifeVars

\* startServer after its await: the error is caught, app.listen either way
\* (server.js:1667-1677)
StartServerResume ==
    /\ cpc[Starter] = "await1" /\ Resumable(Starter)
    /\ listening' = TRUE
    /\ cpc' = [cpc EXCEPT ![Starter] = "done"]
    /\ cwait' = [cwait EXCEPT ![Starter] = NoWait]
    /\ UNCHANGED <<globalBrowser, globalContext, globalPage, isInitializing,
                   initializationPromise, initPc, nInits, browserState, pageClosed,
                   ckind, cpage, cjoined>>
    /\ UNCHANGED notLifeVars

\* a request arrives: POST /chat (server.js:1152-1157) or one of the session
\* endpoints (server.js:155-160, 206-209, 256-259, 306-311)
NewRequest(c, kind) ==
    /\ listening /\ ~MicrotaskPending
    /\ cpc[c] = "idle"
    /\ ckind' = [ckind EXCEPT ![c] = kind]
    /\ cpage' = [cpage EXCEPT ![c] = 0]
    /\ CallInitializeBrowser(c, Globals, "await1")
    /\ UNCHANGED <<browserState, pageClosed, listening>>
    /\ UNCHANGED notLifeVars

\* mutant: the catch block leaves the flag set
FlagAfterCatchKept == TRUE

\* server.js:899: isInitializing after the catch block of the closure
FlagAfterCatch == FALSE

\* puppeteer.launch settles (server.js:794)
InitLaunch(i, ok) ==
    /\ ~MicrotaskPending
    /\ initPc[i] = "launch"
    /\ IF ok
       THEN /\ browserState' = [browserState EXCEPT ![i] = "live"]
            /\ initPc' = [initPc EXCEPT ![i] = "setup"]
            /\ UNCHANGED isInitializing
       ELSE \* catch block, server.js:898-902
            /\ initPc' = [initPc EXCEPT ![i] = "rejected"]
            /\ isInitializing' = FlagAfterCatch
            /\ UNCHANGED browserState
    /\ UNCHANGED <<globalBrowser, globalContext, globalPage, initializationPromise,
                   nInits, pageClosed, listening, cpc, ckind, cwait, cpage, cjoined>>
    /\ UNCHANGED notLifeVars

\* the steps between launch and the stores: context and page creation
\* (server.js:796-843), loadSession (847), gotoWithRetries (851), the
\* readiness wait (854-857), the challenge check with the second readiness
\* wait and the agreement click (860-876), exportSession (880).  setup and
\* goto can throw; loadSession, waitForPageReady, checkSecurityVerification
\* and exportSession catch their errors.  A navigation of a closed page throws.
CanThrow(step) == step \in {"setup", "goto"}

\* mutant: the challenge check is skipped
NextStepNoCheck(step) ==
    CASE step = "setup" -> "load"
      [] step = "load" -> "goto"
      [] step = "goto" -> "ready"
      [] step = "ready" -> "export"
      [] step = "check" -> "export"

NextStep(step) ==
    CASE step = "setup" -> "load"
      [] step = "load" -> "goto"
      [] step = "goto" -> "ready"
      [] step = "ready" -> "check"
      [] step = "check" -> "export"

InitAdvance(i, ok) ==
    /\ ~MicrotaskPending
    /\ initPc[i] \in {"setup", "load", "goto", "ready", "check"}
    /\ ok \/ CanThrow(initPc[i])
    /\ (initPc[i] = "goto" /\ pageClosed[i]) => ~ok
    /\ IF ok
       THEN /\ initPc' = [initPc EXCEPT ![i] = NextStep(initPc[i])]
            /\ UNCHANGED isInitializing
       ELSE \* catch block, server.js:898-902
            /\ initPc' = [initPc EXCEPT ![i] = "rejected"]
            /\ isInitializing' = FlagAfterCatch
    /\ UNCHANGED <<globalBrowser, globalContext, globalPage, initializationPromise,
                   nInits, browserState, pageClosed, listening, cpc, ckind, cwait,
                   cpage, cjoined>>
    /\ UNCHANGED notLifeVars

\* exportSession returned: the handles are stored and the promise resolves
\* (server.js:889-897)
InitFinish(i) ==
    /\ ~MicrotaskPending
    /\ initPc[i] = "export"
    /\ globalBrowser' = i /\ globalContext' = i /\ globalPage' = i
    /\ isInitializing' = FALSE
    /\ initPc' = [initPc EXCEPT ![i] = "resolved"]
    /\ UNCHANGED <<initializationPromise, nInits, browserState, pageClosed,
                   listening, cpc, ckind, cwait, cpage, cjoined>>
    /\ UNCHANGED notLifeVars

\* the page a settled await hands to the handler
AwaitedPage(c) == cwait[c].id

AwaitRejected(c) == cwait[c].type = "promise" /\ initPc[cwait[c].id] = "rejected"

\* POST /chat after `await initializeBrowser()` (server.js:1157-1181): a
\* rejection goes to the catch of server.js:1652; a closed page (or a probe
\* that throws) clears the globals and calls initializeBrowser again
ChatResume1(c) ==
    /\ cpc[c] = "await1" /\ Resumable(c) /\ ckind[c] = "chat"
    /\ IF AwaitRejected(c)
       THEN /\ cpc' = [cpc EXCEPT ![c] = "failed"]
            /\ cwait' = [cwait EXCEPT ![c] = NoWait]
            /\ UNCHANGED <<globalBrowser, globalContext, globalPage, isInitializing,
                           initializationPromise, initPc, nInits, cpage, cjoined>>
       ELSE \E probe \in ProbeOutcomes(AwaitedPage(c)) :
              IF probe = "open"
              THEN /\ cpc' = [cpc EXCEPT ![c] = "acquired"]
                   /\ cpage' = [cpage EXCEPT ![c] = AwaitedPage(c)]
                   /\ cwait' = [cwait EXCEPT ![c] = NoWait]
                   /\ UNCHANGED <<globalBrowser, globalContext, globalPage,
                                  isInitializing, initializationPromise, initPc,
                                  nInits, cjoined>>
              ELSE /\ CallInitializeBrowser(c, <<0, 0, 0>>, "await2")
                   /\ UNCHANGED cpage
    /\ UNCHANGED <<browserState, pageClosed, listening, ckind>>
    /\ UNCHANGED notLifeVars

\* POST /chat after `await initializeBrowser()` of the re-initialization
\* (server.js:1167-1170, 1177-1180)
ChatResume2(c) ==
    /\ cpc[c] = "await2" /\ Resumable(c)
    /\ IF AwaitRejected(c)
       THEN /\ cpc' = [cpc EXCEPT ![c] = "failed"]
            /\ UNCHANGED cpage
       ELSE /\ cpc' = [cpc EXCEPT ![c] = "acquired"]
            /\ cpage' = [cpage EXCEPT ![c] = AwaitedPage(c)]
    /\ cwait' = [cwait EXCEPT ![c] = NoWait]
    /\ UNCHANGED <<globalBrowser, globalContext, globalPage, isInitializing,
                   initializationPromise, initPc, nInits, browserState, pageClosed,
                   listening, ckind, cjoined>>
    /\ UNCHANGED notLifeVars

\* a session endpoint after `await initializeBrowser()` (server.js:160-176):
\* a closed page is answered with status 500, nothing is re-initialized
SessionResume(c) ==
    /\ cpc[c] = "await1" /\ Resumable(c) /\ ckind[c] = "session"
    /\ IF AwaitRejected(c)
       THEN /\ cpc' = [cpc EXCEPT ![c] = "failed"]
            /\ UNCHANGED cpage
       ELSE \E probe \in ProbeOutcomes(AwaitedPage(c)) :
              IF probe = "open"
              THEN /\ cpc' = [cpc EXCEPT ![c] = "acquired"]
                   /\ cpage' = [cpage EXCEPT ![c] = AwaitedPage(c)]
              ELSE /\ cpc' = [cpc EXCEPT ![c] = "failed"]
                   /\ UNCHANGED cpage
    /\ cwait' = [cwait EXCEPT ![c] = NoWait]
    /\ UNCHANGED <<globalBrowser, globalContext, globalPage, isInitializing,
                   initializationPromise, initPc, nInits, browserState, pageClosed,
                   listening, ckind, cjoined>>
    /\ UNCHANGED notLifeVars

\* the rest of a handler, which leaves the lifecycle state alone
\* (server.js:1183-1659, 178-202), and its response
HandlerRest(c) ==
    /\ ~MicrotaskPending
    /\ cpc[c] \in {"acquired", "failed"}
    /\ cpc' = [cpc EXCEPT ![c] = "idle"]
    /\ ckind' = [ckind EXCEPT ![c] = "chat"]
    /\ cpage' = [cpage EXCEPT ![c] = 0]
    /\ cjoined' = [cjoined EXCEPT ![c] = 0]
    /\ UNCHANGED <<globalBrowser, globalContext, globalPage, isInitializing,
                   initializationPromise, initPc, nInits, browserState, pageClosed,
                   listening, cwait>>
    /\ UNCHANGED notLifeVars

\* the environment: a page is closed or crashes
PageClose(b) ==
    /\ ~MicrotaskPending
    /\ browserState[b] = "live" /\ ~pageClosed[b]
    \* the page of a failed initialization is referenced nowhere
    /\ initPc[b] # "rejected"
    /\ pageClosed' = [pageClosed EXCEPT ![b] = TRUE]
    /\ UNCHANGED <<globalBrowser, globalContext, globalPage, isInitializing,
                   initializationPromise, initPc, nInits, browserState, listening,
                   cpc, ckind, cwait, cpage, cjoined>>
    /\ UNCHANGED notLifeVars

InitLife ==
    /\ globalBrowser = 0 /\ globalContext = 0 /\ globalPage = 0
    /\ isInitializing = FALSE
    /\ initializationPromise = 0
    /\ initPc = [i \in InitIds |-> "none"]
    /\ nInits = 0
    /\ browserState = [i \in InitIds |-> "none"]
    /\ pageClosed = [i \in InitIds |-> FALSE]
    /\ listening = FALSE
    /\ cpc = [c \in AllProcs |-> "idle"]
    /\ ckind = [c \in AllProcs |-> IF c = Starter THEN "startup" ELSE "chat"]
    /\ cwait = [c \in AllProcs |-> NoWait]
    /\ cpage = [c \in AllProcs |-> 0]
    /\ cjoined = [c \in AllProcs |-> 0]

NextLife ==
    \/ StartServer
    \/ StartServerResume
    \/ \E c \in Procs, kind \in {"chat", "session"} : NewRequest(c, kind)
    \/ \E i \in InitIds, ok \in BOOLEAN : InitLaunch(i, ok)
    \/ \E i \in InitIds, ok \in BOOLEAN : InitAdvance(i, ok)
    \/ \E i \in InitIds : InitFinish(i)
    \/ \E c \in Procs : ChatResume1(c)
    \/ \E c \in Procs : ChatResume2(c)
    \/ \E c \in Procs : SessionResume(c)
    \/ \E c \in Procs : HandlerRest(c)
    \/ \E b \in InitIds : PageClose(b)

(* --------------------------- reply wait ------------------------------- *)
\* the turn texts a page renders; "" is an empty message node
Texts == {"", "hi", "hello"}
\* null
Null == "<null>"
\* a JavaScript value that passes `if (x)`
Truthy(t) == t # Null /\ t # ""

RECURSIVE SeqsUpTo(_, _)
SeqsUpTo(S, n) ==
    IF n = 0 THEN {<<>>}
    ELSE LET shorter == SeqsUpTo(S, n - 1)
         IN shorter \cup {Append(q, x) : q \in {r \in shorter : Len(r) = n - 1}, x \in S}
Transcripts == SeqsUpTo(Texts, MaxTurns)

\* what a page.evaluate can do: throw, or return a value
MsgEvals == {[throws |-> TRUE, value |-> <<>>]} \cup
            {[throws |-> FALSE, value |-> m] : m \in Transcripts}
StreamEvals == {[throws |-> TRUE, value |-> FALSE]} \cup
               {[throws |-> FALSE, value |-> b] : b \in BOOLEAN}

\* mutant: getAllMessages without its try/catch
getAllMessagesNoCatch(ev) == [threw |-> ev.throws, value |-> ev.value]

\* getAllMessages (server.js:367-379): [] when the evaluation throws
getAllMessages(ev) ==
    IF ev.throws THEN [threw |-> FALSE, value |-> <<>>]
    ELSE [threw |-> FALSE, value |-> ev.value]

\* isStreaming (server.js:402-411): false when the evaluation throws
isStreaming(ev) == IF ev.throws THEN FALSE ELSE ev.value

\* getLatestAI (server.js:383-391): i is the 0-based index of the loop
RECURSIVE ScanLatestAI(_, _)
ScanLatestAI(messages, i) ==
    IF i < 0 THEN Null
    ELSE IF i % 2 = 1 THEN messages[i + 1]
    ELSE ScanLatestAI(messages, i - 1)

\* mutant: the parity test of server.js:386 is missing
getLatestAIAnyIndex(messages) ==
    IF messages = <<>> THEN Null ELSE messages[Len(messages)]

getLatestAI(messages) == ScanLatestAI(messages, Len(messages) - 1)

\* mutant: the index is 2n instead of 2n - 1
getNthAIEvenIndex(messages, n) ==
    LET index == 2 * n
    IN IF index < 0 \/ index >= Len(messages) THEN Null ELSE messages[index + 1]

\* getNthAI (server.js:395-399); index is 0-based
getNthAI(messages, n) ==
    LET index == (2 * n) - 1
    IN IF index < 0 \/ index >= Len(messages) THEN Null ELSE messages[index + 1]

\* the body of the loop of waitForResponseStable after the two probes
\* (server.js:424-432): the new last and stableCount, and whether it returns
StableStep(last, stableCount, latestAI, streaming) ==
    IF Truthy(latestAI) /\ ~streaming
    THEN IF latestAI = last
         THEN [last |-> last, stableCount |-> stableCount + 1,
               returns |-> stableCount + 1 >= 2]
         ELSE [last |-> latestAI, stableCount |-> 1, returns |-> FALSE]
    ELSE [last |-> last, stableCount |-> stableCount, returns |-> FALSE]

\* a poll takes one interval (the wait of server.js:434) or, with slow
\* evaluations, more
PollCost == {1, 2}

\* the last two entries of a log
LastTwo(log) == IF Len(log) <= 2 THEN log ELSE SubSeq(log, Len(log) - 1, Len(log))

\* waitForResponseStable is called (server.js:414-417)
WaitStart ==
    /\ wpc = "idle"
    /\ wpc' = "poll"
    /\ wLast' = "" /\ wStable' = 0 /\ wElapsed' = 0
    /\ UNCHANGED <<wResult, wLog, wAllChanged, wTimedOut, wEvalFailed>>
    /\ UNCHANGED notWaitVars

\* one iteration of the loop (server.js:419-435)
WaitPoll(mev, sev, cost) ==
    /\ wpc = "poll" /\ wElapsed < WaitTimeout
    /\ LET msgs == getAllMessages(mev)
           latestAI == getLatestAI(msgs.value)
           streaming == isStreaming(sev)
           step == StableStep(wLast, wStable, latestAI, streaming)
       IN IF msgs.threw
          THEN /\ wpc' = "threw"
               /\ UNCHANGED <<wLast, wStable, wElapsed, wResult, wLog, wAllChanged,
                              wTimedOut>>
          ELSE /\ wLog' = LastTwo(Append(wLog, [ai |-> latestAI, streaming |-> streaming]))
               /\ wAllChanged' = (wAllChanged /\
                                    (wLog = <<>> \/ wLog[Len(wLog)].ai # latestAI))
               /\ wLast' = step.last
               /\ wStable' = step.stableCount
               /\ IF step.returns
                  THEN /\ wpc' = "returned" /\ wResult' = msgs.value
                       /\ wTimedOut' = FALSE
                       /\ UNCHANGED wElapsed
                  ELSE /\ wElapsed' = wElapsed + cost
                       /\ UNCHANGED <<wpc, wResult, wTimedOut>>
    /\ wEvalFailed' = (wEvalFailed \/ mev.throws \/ sev.throws)
    /\ UNCHANGED notWaitVars

\* the loop ends at the timeout: the transcript read then is returned
\* (server.js:419, 437)
WaitExpire(mev) ==
    /\ wpc = "poll" /\ wElapsed >= WaitTimeout
    /\ LET msgs == getAllMessages(mev)
       IN IF msgs.threw
          THEN /\ wpc' = "threw" /\ UNCHANGED <<wResult, wTimedOut>>
          ELSE /\ wpc' = "returned" /\ wResult' = msgs.value /\ wTimedOut' = TRUE
    /\ wEvalFailed' = (wEvalFailed \/ mev.throws)
    /\ UNCHANGED <<wLast, wStable, wElapsed, wLog, wAllChanged>>
    /\ UNCHANGED notWaitVars

InitWait ==
    /\ wpc = "idle" /\ wLast = "" /\ wStable = 0 /\ wElapsed = 0
    /\ wResult = <<>> /\ wLog = <<>> /\ wAllChanged = TRUE
    /\ wTimedOut = FALSE /\ wEvalFailed = FALSE

WaitPolls == \E mev \in MsgEvals, sev \in StreamEvals, cost \in PollCost : WaitPoll(mev, sev, cost)
WaitExpires == \E mev \in MsgEvals : WaitExpire(mev)

NextWait ==
    \/ WaitStart
    \/ WaitPolls
    \/ WaitExpires

(* ----------------------- transcript functions ------------------------- *)
\* the transcripts and the values of n of the calls
Entries == SeqsUpTo(Texts, MaxEntries)
Ns == -1 .. MaxEntries

\* getLatestAI is called on messages (server.js:421, 1629)
CallGetLatestAI ==
    /\ fpc = "args"
    /\ fResult' = getLatestAI(fMessages)
    /\ fpc' = "latest"
    /\ UNCHANGED <<fMessages, fN>>
    /\ UNCHANGED notFnVars

\* getNthAI is called on messages and n (server.js:1634)
CallGetNthAI ==
    /\ fpc = "args"
    /\ fResult' = getNthAI(fMessages, fN)
    /\ fpc' = "nth"
    /\ UNCHANGED <<fMessages, fN>>
    /\ UNCHANGED notFnVars

\* Math.ceil((messages.length + 1) / 2) (server.js:1633)
userMessageCount(messages) == (Len(messages) + 2) \div 2

\* the nth computation of POST /chat (server.js:1633-1634): getNthAI is
\* called with n = userMessageCount
CallNthOfChat ==
    /\ fpc = "args" /\ fN = userMessageCount(fMessages)
    /\ fResult' = getNthAI(fMessages, fN)
    /\ fpc' = "chat"
    /\ UNCHANGED <<fMessages, fN>>
    /\ UNCHANGED notFnVars

\* no call
InitFn == fMessages = <<>> /\ fN = 0 /\ fpc = "none" /\ fResult = Null

\* the arguments of a call
InitArgs ==
    /\ fMessages \in Entries /\ fN \in Ns
    /\ fpc = "args" /\ fResult = Null

NextFn ==
    \/ CallGetLatestAI
    \/ CallGetNthAI
    \/ CallNthOfChat

(* ------------------------- POST /chat: send --------------------------- *)
\* the characters of a message and of the input surface
Chars == {"a", " "}
\* String.prototype.trim
IsSpace(ch) == ch = " "
RECURSIVE TrimStart(_)
TrimStart(str) ==
    IF str # <<>> /\ IsSpace(Head(str)) THEN TrimStart(Tail(str)) ELSE str
RECURSIVE TrimEnd(_)
TrimEnd(str) ==
    IF str # <<>> /\ IsSpace(str[Len(str)])
    THEN TrimEnd(SubSeq(str, 1, Len(str) - 1)) ELSE str
Trim(str) == TrimEnd(TrimStart(str))

\* the messages of the requests: not blank
Messages == {m \in SeqsUpTo(Chars, MaxMsgLen) : Trim(m) # <<>>}

\* String.prototype.length of a turn text
TextLen(t) == CASE t = "hi" -> 2 [] t = "hello" -> 5 [] OTHER -> 0

\* the shortest reply POST /chat accepts (server.js:1636)
MinReplyLen == 5

\* mutant: the test of server.js:1636 is missing
ReplyRejectedNever(latest) == FALSE

\* server.js:1636: `!latest || latest.length < 5`
ReplyRejected(latest) == ~Truthy(latest) \/ TextLen(latest) < MinReplyLen

\* the in-page check after a send attempt (server.js:1518-1528, 1542-1551,
\* 1569-1578, 1598-1607) on the input surface value
wasSent(value, sentMessage) ==
    Trim(value) = <<>> \/ Len(Trim(value)) < Len(sentMessage)

\* mutant: the throw of server.js:1617-1619 is missing
ThrowsNotSentNever(messageSent) == FALSE

\* server.js:1617: the request fails when no strategy was confirmed
ThrowsNotSent(messageSent) == ~messageSent

\* the page's answer to a click on the send control or to the Enter key: it
\* submits the input text or not (it never submits a blank input), and on a
\* submission the input is found cleared by the next check or not
Reactions == {[submits |-> FALSE, clears |-> FALSE],
              [submits |-> TRUE, clears |-> TRUE],
              [submits |-> TRUE, clears |-> FALSE]}
PageReacts(c, r) ==
    /\ r.submits => Trim(pInput) # <<>>
    /\ pInput' = IF r.submits /\ r.clears THEN <<>> ELSE pInput
    /\ csubs' = [csubs EXCEPT ![c] = IF r.submits THEN @ + 1 ELSE @]

\* the handler holds the page: the checks before typing, the model
\* selection, the lookup of the input surface, and the clearing of it
\* (server.js:1183-1339); message is req.body.message (server.js:1153)
\* and req.body.image given or not.  nav is the URL check of
\* server.js:1184-1194: "stay" when the page is on lmarena.ai, "ok" when it
\* is not and gotoWithRetries succeeds, "fails" when gotoWithRetries throws
\* (caught at server.js:1652)
ChatBegin(c, message, inputFound, nav, image) ==
    /\ ~MicrotaskPending
    /\ cpc[c] = "acquired" /\ ckind[c] = "chat"
    /\ cmsg' = [cmsg EXCEPT ![c] = message]
    /\ cimage' = [cimage EXCEPT ![c] = image]
    /\ cnav' = [cnav EXCEPT ![c] = (nav = "ok")]
    /\ IF nav = "fails"
       THEN /\ inputFound
            /\ cpc' = [cpc EXCEPT ![c] = "responded"]
            /\ cout' = [cout EXCEPT ![c] = "navfailed"]
            /\ UNCHANGED pInput
       ELSE IF inputFound
       THEN /\ cpc' = [cpc EXCEPT ![c] = "typing"]
            /\ pInput' = <<>>
            /\ UNCHANGED cout
       ELSE \* server.js:1292-1294, caught at server.js:1652
            /\ cpc' = [cpc EXCEPT ![c] = "responded"]
            /\ cout' = [cout EXCEPT ![c] = "noinput"]
            /\ pInput' = IF nav = "ok" THEN <<>> ELSE pInput
    /\ UNCHANGED <<ctyped, csent, csubs, cresp, ctmp>>
    /\ UNCHANGED notChatVars

\* one iteration of the typing loop (server.js:1344-1358)
TypeChar(c) ==
    /\ ~MicrotaskPending
    /\ cpc[c] = "typing" /\ ctyped[c] < Len(cmsg[c])
    /\ pInput' = Append(pInput, cmsg[c][ctyped[c] + 1])
    /\ ctyped' = [ctyped EXCEPT ![c] = @ + 1]
    /\ UNCHANGED <<cpc, cmsg, csent, csubs, cout, cresp>>
    /\ UNCHANGED <<cimage, ctmp, cnav>>
    /\ UNCHANGED notChatVars

\* after the loop: the input events (server.js:1360-1377); with an image
\* the upload step follows (server.js:1379-1392), without one the lookup of
\* the send control (server.js:1424-1503); with no control the clicks are
\* skipped (server.js:1508)
TypeDone(c, hasButton) ==
    /\ ~MicrotaskPending
    /\ cpc[c] = "typing" /\ ctyped[c] = Len(cmsg[c])
    /\ cimage[c] => hasButton
    /\ cpc' = [cpc EXCEPT ![c] = IF cimage[c] THEN "select1"
                                 ELSE IF hasButton THEN "click1" ELSE "enter"]
    /\ UNCHANGED <<pInput, cmsg, ctyped, csent, csubs, cout, cresp>>
    /\ UNCHANGED <<cimage, ctmp, cnav>>
    /\ UNCHANGED notChatVars

\* the loop over fileInputSelectors (server.js:1384-1418): the three lookups
\* and the uploads that follow them
NextSelector(pc) ==
    CASE pc \in {"select1", "upload1"} -> "select2"
      [] pc \in {"select2", "upload2"} -> "select3"
      [] pc \in {"select3", "upload3"} -> "lookup"
UploadOf(pc) ==
    CASE pc = "select1" -> "upload1" [] pc = "select2" -> "upload2"
      [] pc = "select3" -> "upload3"

\* tryQuerySelector settled (server.js:1392, 440-451): it throws when the
\* selector is not found, which is caught at server.js:1415; on a file input
\* the temporary file is written and uploadFile is called (server.js:1393-1406)
UploadSelect(c, found) ==
    /\ ~MicrotaskPending
    /\ cpc[c] \in {"select1", "select2", "select3"}
    /\ IF found
       THEN /\ cpc' = [cpc EXCEPT ![c] = UploadOf(cpc[c])]
            /\ ctmp' = [ctmp EXCEPT ![c] = @ + 1]
       ELSE /\ cpc' = [cpc EXCEPT ![c] = NextSelector(cpc[c])]
            /\ UNCHANGED ctmp
    /\ UNCHANGED <<pInput, cmsg, ctyped, csent, csubs, cout, cresp, cimage, cnav>>
    /\ UNCHANGED notChatVars

\* uploadFile settled (server.js:1406-1417): after a success the file is
\* unlinked and the loop ends; a failure is caught at server.js:1415 and the
\* loop goes on with the next selector
UploadSettles(c, ok) ==
    /\ ~MicrotaskPending
    /\ cpc[c] \in {"upload1", "upload2", "upload3"}
    /\ IF ok
       THEN /\ cpc' = [cpc EXCEPT ![c] = "lookup"]
            /\ ctmp' = [ctmp EXCEPT ![c] = @ - 1]
       ELSE /\ cpc' = [cpc EXCEPT ![c] = NextSelector(cpc[c])]
            /\ UNCHANGED ctmp
    /\ UNCHANGED <<pInput, cmsg, ctyped, csent, csubs, cout, cresp, cimage, cnav>>
    /\ UNCHANGED notChatVars

\* the lookup of the send control after the upload step (server.js:1424-1508)
FindSendButton(c, hasButton) ==
    /\ ~MicrotaskPending
    /\ cpc[c] = "lookup"
    /\ cpc' = [cpc EXCEPT ![c] = IF hasButton THEN "click1" ELSE "enter"]
    /\ UNCHANGED <<pInput, cmsg, ctyped, csent, csubs, cout, cresp, cimage, ctmp, cnav>>
    /\ UNCHANGED notChatVars

ClickPcs == {"click1", "click2", "click3"}
CheckOf(pc) ==
    CASE pc = "click1" -> "check1" [] pc = "click2" -> "check2"
      [] pc = "click3" -> "check3" [] pc = "enter" -> "checkE"
StrategyOf(pc) ==
    CASE pc = "check1" -> "click1" [] pc = "check2" -> "click2"
      [] pc = "check3" -> "click3" [] pc = "checkE" -> "enter"
\* mutant: the Enter key comes before the synthetic click event
AfterFailedCheckEnterFirst(pc) ==
    CASE pc = "check1" -> "click2" [] pc = "check2" -> "enter"
      [] pc = "check3" -> "enter"

\* what follows a check that did not confirm (server.js:1533-1534,
\* 1556-1557, 1583-1592)
AfterFailedCheck(pc) ==
    CASE pc = "check1" -> "click2" [] pc = "check2" -> "click3"
      [] pc = "check3" -> "enter"

\* a click on the send control: plain click, in-page click, synthetic click
\* event (server.js:1511-1515, 1536-1540, 1559-1567); a click that throws
\* is caught at server.js:1586 and leads to the Enter fallback
ClickSend(c, r, throws) ==
    /\ ~MicrotaskPending
    /\ cpc[c] \in ClickPcs
    /\ IF throws
       THEN /\ cpc' = [cpc EXCEPT ![c] = "enter"]
            /\ r = [submits |-> FALSE, clears |-> FALSE]
            /\ UNCHANGED <<pInput, csubs>>
       ELSE /\ cpc' = [cpc EXCEPT ![c] = CheckOf(cpc[c])]
            /\ PageReacts(c, r)
    /\ UNCHANGED <<cmsg, ctyped, csent, cout, cresp>>
    /\ UNCHANGED <<cimage, ctmp, cnav>>
    /\ UNCHANGED notChatVars

\* the Enter fallback (server.js:1592-1595)
PressEnter(c, r) ==
    /\ ~MicrotaskPending
    /\ cpc[c] = "enter"
    /\ cpc' = [cpc EXCEPT ![c] = "checkE"]
    /\ PageReacts(c, r)
    /\ UNCHANGED <<cmsg, ctyped, csent, cout, cresp>>
    /\ UNCHANGED <<cimage, ctmp, cnav>>
    /\ UNCHANGED notChatVars

\* the check after an attempt (server.js:1518-1532, 1542-1555, 1569-1583,
\* 1598-1619): confirmed, the request goes on to the reply wait
\* (server.js:1621-1628); not confirmed, the next strategy is tried, and
\* after the Enter key the request fails
CheckSent(c) ==
    /\ ~MicrotaskPending
    /\ cpc[c] \in {"check1", "check2", "check3", "checkE"}
    /\ LET confirmed == wasSent(pInput, cmsg[c])
       IN IF confirmed
          THEN /\ csent' = [csent EXCEPT ![c] = StrategyOf(cpc[c])]
               /\ cpc' = [cpc EXCEPT ![c] = "wait"]
               /\ UNCHANGED cout
          ELSE IF cpc[c] # "checkE"
          THEN /\ cpc' = [cpc EXCEPT ![c] = AfterFailedCheck(cpc[c])]
               /\ UNCHANGED <<csent, cout>>
          ELSE IF ThrowsNotSent(csent[c] # "none")
          THEN /\ cpc' = [cpc EXCEPT ![c] = "responded"]
               /\ cout' = [cout EXCEPT ![c] = "notsent"]
               /\ UNCHANGED csent
          ELSE /\ cpc' = [cpc EXCEPT ![c] = "wait"]
               /\ UNCHANGED <<csent, cout>>
    /\ UNCHANGED <<pInput, cmsg, ctyped, csubs, cresp>>
    /\ UNCHANGED <<cimage, ctmp, cnav>>
    /\ UNCHANGED notChatVars

\* waitForResponseStable returns (server.js:1628; any transcript can be its
\* value, see WaitExpire) and the reply is checked and sent
\* (server.js:1629-1650)
ReplyWaitReturns(c, messages) ==
    /\ ~MicrotaskPending
    /\ cpc[c] = "wait"
    /\ LET latest == getLatestAI(messages)
       IN IF ReplyRejected(latest)
          THEN /\ cout' = [cout EXCEPT ![c] = "short"]
               /\ UNCHANGED cresp
          ELSE /\ cout' = [cout EXCEPT ![c] = "ok"]
               /\ cresp' = [cresp EXCEPT ![c] = latest]
    /\ cpc' = [cpc EXCEPT ![c] = "responded"]
    /\ UNCHANGED <<pInput, cmsg, ctyped, csent, csubs>>
    /\ UNCHANGED <<cimage, ctmp, cnav>>
    /\ UNCHANGED notChatVars

NoMessage == <<>>

\* the response is out and the handler ends (server.js:1644-1659)
ChatEnd(c) ==
    /\ ~MicrotaskPending
    /\ cpc[c] = "responded"
    /\ cpc' = [cpc EXCEPT ![c] = "idle"]
    /\ cmsg' = [cmsg EXCEPT ![c] = NoMessage]
    /\ ctyped' = [ctyped EXCEPT ![c] = 0]
    /\ csent' = [csent EXCEPT ![c] = "none"]
    /\ csubs' = [csubs EXCEPT ![c] = 0]
    /\ cout' = [cout EXCEPT ![c] = "none"]
    /\ cresp' = [cresp EXCEPT ![c] = Null]
    /\ cimage' = [cimage EXCEPT ![c] = FALSE]
    /\ ctmp' = [ctmp EXCEPT ![c] = 0]
    /\ cnav' = [cnav EXCEPT ![c] = FALSE]
    /\ UNCHANGED pInput
    /\ UNCHANGED notChatVars

InitChat ==
    /\ pInput = <<>>
    /\ cmsg = [c \in Procs |-> NoMessage]
    /\ ctyped = [c \in Procs |-> 0]
    /\ csent = [c \in Procs |-> "none"]
    /\ csubs = [c \in Procs |-> 0]
    /\ cout = [c \in Procs |-> "none"]
    /\ cresp = [c \in Procs |-> Null]
    /\ cimage = [c \in Procs |-> FALSE]
    /\ ctmp = [c \in Procs |-> 0]
    /\ cnav = [c \in Procs |-> FALSE]

\* the server after a successful startup: initialization 1 resolved, its
\* handles stored, the server listening
InitReady ==
    /\ globalBrowser = 1 /\ globalContext = 1 /\ globalPage = 1
    /\ isInitializing = FALSE
    /\ initializationPromise = 1
    /\ initPc = [i \in InitIds |-> IF i = 1 THEN "resolved" ELSE "none"]
    /\ nInits = 1
    /\ browserState = [i \in InitIds |-> IF i = 1 THEN "live" ELSE "none"]
    /\ pageClosed = [i \in InitIds |-> FALSE]
    /\ listening = TRUE
    /\ cpc = [c \in AllProcs |-> IF c = Starter THEN "done" ELSE "idle"]
    /\ ckind = [c \in AllProcs |-> IF c = Starter THEN "startup" ELSE "chat"]
    /\ cwait = [c \in AllProcs |-> NoWait]
    /\ cpage = [c \in AllProcs |-> 0]
    /\ cjoined = [c \in AllProcs |-> 0]

\* the keystrokes of another request on the same page (server.js:1296-1358)
\* leave any text in the input surface
Interfere(value) ==
    /\ ~MicrotaskPending
    /\ pInput' = value /\ pInput # value
    /\ UNCHANGED <<cpc, cmsg, ctyped, csent, csubs, cout, cresp>>
    /\ UNCHANGED <<cimage, ctmp, cnav>>
    /\ UNCHANGED notChatVars

\* one request at a time is followed; the others act through Interfere
Followed == {1}

NextSend ==
    \/ \E c \in Followed : NewRequest(c, "chat")
    \/ \E c \in Followed : ChatResume1(c)
    \/ \E c \in Followed, message \in Messages, inputFound \in BOOLEAN,
             nav \in {"stay", "ok", "fails"}, image \in BOOLEAN :
          ChatBegin(c, message, inputFound, nav, image)
    \/ \E c \in Followed : TypeChar(c)
    \/ \E c \in Followed, hasButton \in BOOLEAN : TypeDone(c, hasButton)
    \/ \E c \in Followed, found \in BOOLEAN : UploadSelect(c, found)
    \/ \E c \in Followed, ok \in BOOLEAN : UploadSettles(c, ok)
    \/ \E c \in Followed, hasButton \in BOOLEAN : FindSendButton(c, hasButton)
    \/ \E c \in Followed, r \in Reactions, throws \in BOOLEAN : ClickSend(c, r, throws)
    \/ \E c \in Followed, r \in Reactions : PressEnter(c, r)
    \/ \E c \in Followed : CheckSent(c)
    \/ \E c \in Followed, messages \in Transcripts : ReplyWaitReturns(c, messages)
    \/ \E c \in Followed : ChatEnd(c)
    \/ \E value \in SeqsUpTo(Chars, MaxMsgLen) : Interfere(value)

\* the requests carry no image and find the page on the target
NextChat ==
    \/ \E c \in Procs : NewRequest(c, "chat")
    \/ \E c \in Procs : ChatResume1(c)
    \/ \E c \in Procs, message \in Messages, inputFound \in BOOLEAN :
          ChatBegin(c, message, inputFound, "stay", FALSE)
    \/ \E c \in Procs : TypeChar(c)
    \/ \E c \in Procs, hasButton \in BOOLEAN : TypeDone(c, hasButton)
    \/ \E c \in Procs, r \in Reactions, throws \in BOOLEAN : ClickSend(c, r, throws)
    \/ \E c \in Procs, r \in Reactions : PressEnter(c, r)
    \/ \E c \in Procs : CheckSent(c)
    \/ \E c \in Procs, messages \in Transcripts : ReplyWaitReturns(c, messages)
    \/ \E c \in Procs : ChatEnd(c)

(* --------------------------- session store ---------------------------- *)
\* A cookie is a record; a field the JSON object lacks is missing from its
\* domain.  expires: -1 is the marker page.cookies() gives a session cookie,
\* 0 a zero timestamp, 1 and 3 are times in seconds (the clock starts at 2).
Opt(field, values) == {<<>>} \cup {field :> v : v \in values}
Expiries == {-1, 0, 1, 3}
Domains == {"lmarena.ai", ".lmarena.ai"}
\* the partitioned cookies are those of .lmarena.ai
CookieAttrs ==
    {e @@ ("domain" :> d) : e \in Opt("expires", Expiries), d \in Domains}
        \cup {e @@ ("partitionKey" :> "site") @@ ("domain" :> ".lmarena.ai") :
                 e \in Opt("expires", Expiries)}
Has(c, field) == field \in DOMAIN c
\* the cookie sequences of the session files: names are distinct
CookieSeqs ==
    {[i \in 1 .. Len(q) |-> ("name" :> ToString(i)) @@ q[i]] :
        q \in SeqsUpTo(CookieAttrs, MaxCookies)}
\* localStorage objects, as the set of their keys
Storages == {{}, {"k"}}

\* the content of SESSION_FILE (server.js:30): no file, text that is not
\* JSON, the JSON values null, a scalar, an object without a cookies array,
\* a bare cookie array, a snapshot object
NoFile == [shape |-> "missing"]
OddFiles == {[shape |-> s] : s \in {"garbage", "null", "scalar", "object"}}
ArrayFile(cookies) == [shape |-> "array", cookies |-> cookies]
SessionFile(cookies, localStorage, savedAt, url) ==
    [shape |-> "session", cookies |-> cookies, localStorage |-> localStorage,
     savedAt |-> savedAt, url |-> url]
Files ==
    {NoFile} \cup OddFiles \cup {ArrayFile(C) : C \in CookieSeqs}
        \cup {SessionFile(C, L, 0, "direct") : C \in CookieSeqs, L \in Storages}

\* the file of the other shape with the same cookies
TwinFile(file) ==
    IF file.shape = "array" THEN SessionFile(file.cookies, {}, 0, "direct")
    ELSE IF file.shape = "session" /\ file.localStorage = {} THEN ArrayFile(file.cookies)
    ELSE file

\* a page of a fresh incognito context (server.js:809-811)
FreshPage == [cookies |-> <<>>, localStorage |-> {}, url |-> "blank", closed |-> FALSE]

\* mutant: without the test of server.js:912 a missing file reads as a cookie
ReadSessionNoExistsTest(file) ==
    CASE file.shape = "missing" ->
            [result |-> "ok", localStorage |-> {},
             cookies |-> <<[name |-> "1", domain |-> ".lmarena.ai"]>>]
      [] file.shape \in {"garbage", "null"} -> [result |-> "throws"]
      [] file.shape = "array" ->
            [result |-> "ok", cookies |-> file.cookies, localStorage |-> {}]
      [] file.shape = "session" ->
            [result |-> "ok", cookies |-> file.cookies, localStorage |-> file.localStorage]
      [] OTHER -> [result |-> "false"]

\* mutant: a bare array is not accepted
ReadSessionObjectOnly(file) ==
    CASE file.shape = "missing" -> [result |-> "false"]
      [] file.shape \in {"garbage", "null"} -> [result |-> "throws"]
      [] file.shape = "session" ->
            [result |-> "ok", cookies |-> file.cookies, localStorage |-> file.localStorage]
      [] OTHER -> [result |-> "false"]

\* loadSession up to the shape test (server.js:911-937): no file returns
\* false (913), JSON.parse throws on text that is not JSON (916), the
\* property access of 928 throws on null, any other value without a cookies
\* array returns false (936)
ReadSession(file) ==
    CASE file.shape = "missing" -> [result |-> "false"]
      [] file.shape \in {"garbage", "null"} -> [result |-> "throws"]
      [] file.shape = "array" ->
            [result |-> "ok", cookies |-> file.cookies, localStorage |-> {}]
      [] file.shape = "session" ->
            [result |-> "ok", cookies |-> file.cookies, localStorage |-> file.localStorage]
      [] OTHER -> [result |-> "false"]

\* mutant: loadSession without the catch of server.js:1044
OuterCatchMissing == FALSE

\* server.js:910, 1044-1047: the whole body is inside one try
OuterCatch == TRUE

\* the locals of a loadSession run that returned b
Returned(l, b) == [l EXCEPT !.pc = "done", !.ret = b]

\* mutant: the replay is made only after cookies were loaded
AfterCookiesOnlyIfLoaded(l) ==
    IF l.localStorage # {} /\ l.cookiesLoaded THEN [l EXCEPT !.pc = "goto2"]
    ELSE Returned(l, l.cookiesLoaded)

\* server.js:1012-1043 from the localStorage test on: with entries to replay
\* the run navigates again, without it returns cookiesLoaded
AfterCookies(l) ==
    IF l.localStorage # {} THEN [l EXCEPT !.pc = "goto2"]
    ELSE Returned(l, l.cookiesLoaded)

\* the synchronous start of loadSession (server.js:909-946)
LoadStart(file) ==
    LET r == ReadSession(file)
        l == [pc |-> "start", shape |-> file.shape, cookies |-> <<>>, localStorage |-> {},
              cookiesLoaded |-> FALSE, navigated |-> FALSE, now |-> 0,
              called |-> FALSE, passed |-> <<>>, expired |-> <<>>, ret |-> FALSE]
    IN CASE r.result = "throws" ->
              IF OuterCatch THEN Returned(l, FALSE) ELSE [l EXCEPT !.pc = "threw"]
         [] r.result = "false" -> Returned(l, FALSE)
         [] OTHER ->
              LET k == [l EXCEPT !.cookies = r.cookies, !.localStorage = r.localStorage]
              IN IF Len(k.cookies) > 0 THEN [k EXCEPT !.pc = "goto1"] ELSE AfterCookies(k)

\* server.js:953
Setable(cookies) == SelectSeq(cookies, LAMBDA c : ~Has(c, "partitionKey"))

\* mutant: no cookie counts as expired
IsExpiredNever(cookie, now) == FALSE

\* server.js:964: `cookie.expires && cookie.expires < now`
IsExpired(cookie, now) ==
    Has(cookie, "expires") /\ cookie.expires # 0 /\ cookie.expires < now

\* mutant: the domain is left as the file has it
NormalizedSame(cookie) == cookie

\* server.js:978-987: a domain that includes lmarena.ai and has no leading
\* dot gets one, and partitionKey is deleted
Normalized(cookie) ==
    LET startsWithDot == cookie.domain = ".lmarena.ai"
        includesTarget == cookie.domain \in {"lmarena.ai", ".lmarena.ai"}
        dotted == IF Has(cookie, "domain") /\ ~startsWithDot /\ includesTarget
                  THEN [cookie EXCEPT !.domain = ".lmarena.ai"] ELSE cookie
    IN [f \in DOMAIN dotted \ {"partitionKey"} |-> dotted[f]]

\* mutant: setCookie is called whatever the navigation did
LoadGoto1StepAnyway(s, ok, now) ==
    [s EXCEPT !.ld = [s.ld EXCEPT !.pc = "setCookie", !.called = TRUE, !.now = now,
                                  !.passed = SelectSeq(s.ld.cookies,
                                      LAMBDA c : ~Has(c, "partitionKey"))]]

\* A run of loadSession is s = [ld |-> its locals, page |-> its page].
\* page.goto('https://lmarena.ai') settled (server.js:946-1010): a failure is
\* caught at 1006; after a success the cookies are filtered and setCookie is
\* called with the normalized valid ones, if any
LoadGoto1Step(s, ok, now) ==
    IF ~ok THEN [s EXCEPT !.ld = AfterCookies(s.ld)]
    ELSE LET setableCookies == Setable(s.ld.cookies)
             skippedCount == Len(s.ld.cookies) - Len(setableCookies)
             validCookies == SelectSeq(setableCookies, LAMBDA c : ~IsExpired(c, now))
             expiredCookies == SelectSeq(setableCookies, LAMBDA c : IsExpired(c, now))
             page == [s.page EXCEPT !.url = "root"]
             l == [s.ld EXCEPT !.navigated = TRUE, !.now = now,
                               !.expired = [i \in 1 .. Len(expiredCookies) |->
                                               expiredCookies[i].name]]
         IN IF Len(setableCookies) > 0 /\ Len(validCookies) > 0
            THEN [ld |-> [l EXCEPT !.pc = "setCookie", !.called = TRUE,
                                   !.passed = [i \in 1 .. Len(validCookies) |->
                                                  Normalized(validCookies[i])]],
                  page |-> page]
            ELSE IF Len(setableCookies) > 0 \/ skippedCount > 0
            THEN [ld |-> AfterCookies([l EXCEPT !.cookiesLoaded = TRUE]), page |-> page]
            ELSE [ld |-> AfterCookies(l), page |-> page]

\* page.setCookie settled (server.js:989-997, catch at 1006)
LoadSetCookieStep(s, ok) ==
    IF ok
    THEN [ld |-> AfterCookies([s.ld EXCEPT !.cookiesLoaded = TRUE]),
          page |-> [s.page EXCEPT !.cookies = @ \o s.ld.passed]]
    ELSE [s EXCEPT !.ld = AfterCookies(s.ld)]

\* the page.goto before the localStorage replay settled (server.js:1015-1016,
\* catch at 1028)
LoadGoto2Step(s, ok) ==
    IF ok
    THEN [ld |-> [s.ld EXCEPT !.pc = "evaluate"], page |-> [s.page EXCEPT !.url = "root"]]
    ELSE [s EXCEPT !.ld = Returned(s.ld, s.ld.cookiesLoaded)]

\* the page.evaluate of the replay settled (server.js:1018-1043)
LoadEvaluateStep(s, ok) ==
    IF ok
    THEN [ld |-> Returned(s.ld, s.ld.cookiesLoaded),
          page |-> [s.page EXCEPT !.localStorage = @ \cup s.ld.localStorage]]
    ELSE [s EXCEPT !.ld = Returned(s.ld, s.ld.cookiesLoaded)]

\* the step of a run at whatever await it is
LoadStep(s, ok, now) ==
    CASE s.ld.pc = "goto1" -> LoadGoto1Step(s, ok, now)
      [] s.ld.pc = "setCookie" -> LoadSetCookieStep(s, ok)
      [] s.ld.pc = "goto2" -> LoadGoto2Step(s, ok)
      [] s.ld.pc = "evaluate" -> LoadEvaluateStep(s, ok)
      [] OTHER -> s

\* no run of loadSession yet
NotLoaded ==
    [pc |-> "none", shape |-> "missing", cookies |-> <<>>, localStorage |-> {},
     cookiesLoaded |-> FALSE, navigated |-> FALSE, now |-> 0,
     called |-> FALSE, passed |-> <<>>, expired |-> <<>>, ret |-> FALSE]

\* initializeBrowser calls loadSession on its new page (server.js:847); twin
\* is the same call on the file of the other shape, which then gets the same
\* outcomes of its awaits
LoadSessionCall ==
    /\ ipc = "load" /\ ld.pc = "none"
    /\ ld' = LoadStart(sFile)
    /\ twin' = [ld |-> LoadStart(TwinFile(sFile)), page |-> sPage]
    /\ UNCHANGED <<sFile, backups, clock, sPage, ipc, navUnsaved, xpc, xkind, xsnap, xret>>
    /\ UNCHANGED notSessVars

\* an await of loadSession settles at the time now
LoadAwait(pc, ok, now) ==
    /\ ipc = "load" /\ ld.pc = pc
    /\ LET s == LoadStep([ld |-> ld, page |-> sPage], ok, now)
       IN ld' = s.ld /\ sPage' = s.page
    /\ twin' = LoadStep(twin, ok, now)
    /\ clock' = now
    /\ UNCHANGED <<sFile, backups, ipc, navUnsaved, xpc, xkind, xsnap, xret>>
    /\ UNCHANGED notSessVars

\* the first navigation takes any time; Date.now() is read after it
\* (server.js:946-958)
LoadGoto1(ok) == \E now \in clock .. MaxClock : LoadAwait("goto1", ok, now)
LoadSetCookie(ok) == LoadAwait("setCookie", ok, clock)
LoadGoto2(ok) == LoadAwait("goto2", ok, clock)
LoadEvaluate(ok) == LoadAwait("evaluate", ok, clock)

\* gotoWithRetries of initializeBrowser settled (server.js:851); a failure
\* ends the initialization (server.js:898-902); after a success come the
\* readiness and challenge waits (server.js:854-876), which change no state
\* of the session store
InitNavigate(ok) ==
    /\ ipc = "load" /\ ld.pc = "done"
    /\ ok => ~sPage.closed
    /\ IF ok
       THEN /\ ipc' = "export"
            /\ sPage' = [sPage EXCEPT !.url = "direct"]
            /\ navUnsaved' = TRUE
       ELSE /\ ipc' = "failed"
            /\ UNCHANGED <<sPage, navUnsaved>>
    /\ UNCHANGED <<sFile, backups, clock, ld, twin, xpc, xkind, xsnap, xret>>
    /\ UNCHANGED notSessVars

NoSnapshot == SessionFile(<<>>, {}, 0, "none")

\* mutant: exportSession and saveSession without their catch
OnExtractErrorThrow == "threw"

\* server.js:1145-1148, 1114-1117: an error of extractSession is caught and
\* {success: false, error} is returned
OnExtractError == "returned"

\* mutant: the snapshot is merged into the cookies the file holds
WriteFileMerged(old, data) ==
    IF old.shape = "session" THEN [data EXCEPT !.cookies = old.cookies \o @] ELSE data

\* fs.writeFileSync (server.js:1128): the data replaces the content
WriteFile(old, data) == data

\* exportSession or saveSession is called and calls extractSession
\* (server.js:1121-1125, 1086-1088, 1051-1058): a handle that is null or
\* closed throws at 1054, which the caller catches (1145, 1114)
CallExtract(x, kind, handle) ==
    /\ xpc[x] = "idle"
    /\ xkind' = [xkind EXCEPT ![x] = kind]
    /\ xsnap' = [xsnap EXCEPT ![x] = NoSnapshot]
    /\ IF handle = "null" \/ sPage.closed
       THEN /\ xpc' = [xpc EXCEPT ![x] = OnExtractError]
            /\ xret' = [xret EXCEPT ![x] = FALSE]
       ELSE /\ xpc' = [xpc EXCEPT ![x] = "cookies"]
            /\ UNCHANGED xret

\* initializeBrowser calls exportSession (server.js:880)
InitExportCall ==
    /\ ipc = "export"
    /\ CallExtract(1, "export", "page")
    /\ ipc' = "exporting"
    /\ UNCHANGED <<sFile, backups, clock, sPage, ld, twin, navUnsaved>>
    /\ UNCHANGED notSessVars

\* exportSession returned to initializeBrowser, which goes on either way
\* (server.js:881-897)
InitExportReturns ==
    /\ ipc = "exporting" /\ xpc[1] = "returned"
    /\ ipc' = "ready"
    /\ xpc' = [xpc EXCEPT ![1] = "idle"]
    /\ UNCHANGED <<sFile, backups, clock, sPage, ld, twin, navUnsaved, xkind, xsnap, xret>>
    /\ UNCHANGED notSessVars

\* a session endpoint calls exportSession or saveSession (server.js:179,
\* 230, 280, 330); the endpoints answer a closed page themselves with the
\* same failure (server.js:162-176); handle "null" is a call without a page
EndpointCall(x, kind, handle) ==
    /\ ipc = "ready"
    /\ CallExtract(x, kind, handle)
    /\ UNCHANGED <<sFile, backups, clock, sPage, ld, twin, ipc, navUnsaved>>
    /\ UNCHANGED notSessVars

\* page.cookies() settled (server.js:1058); it throws on a closed page
ExtractCookies(x, ok) ==
    /\ xpc[x] = "cookies"
    /\ ok => ~sPage.closed
    /\ IF ok
       THEN /\ xsnap' = [xsnap EXCEPT ![x].cookies = sPage.cookies]
            /\ xpc' = [xpc EXCEPT ![x] = "storage"]
            /\ UNCHANGED xret
       ELSE /\ xpc' = [xpc EXCEPT ![x] = OnExtractError]
            /\ xret' = [xret EXCEPT ![x] = FALSE]
            /\ UNCHANGED xsnap
    /\ UNCHANGED <<sFile, backups, clock, sPage, ld, twin, ipc, navUnsaved, xkind>>
    /\ UNCHANGED notSessVars

\* the name of a backup file: the custom one, or the time in seconds
\* (server.js:1091-1097)
BackupName(custom, now) ==
    IF custom THEN [custom |-> TRUE, stamp |-> 0] ELSE [custom |-> FALSE, stamp |-> now]

\* mutant: the cookies are kept in a place that the calls share
SnapshotShared(x) ==
    SessionFile(xsnap[CHOOSE y \in {1, 2} : y # x].cookies, sPage.localStorage, clock,
                sPage.url)

\* the object extractSession returns (server.js:1074-1079): the cookies
\* this call read, the localStorage it has just read, the time and the url
SnapshotOf(x) == SessionFile(xsnap[x].cookies, sPage.localStorage, clock, sPage.url)

\* the page.evaluate of extractSession settled (server.js:1061-1079), and
\* the caller writes the snapshot and returns (server.js:1128-1144,
\* 1099-1113): exportSession to SESSION_FILE, saveSession to a backup file
ExtractStorage(x, ok, custom) ==
    /\ xpc[x] = "storage"
    /\ ok => ~sPage.closed
    /\ (xkind[x] = "export" \/ ~ok) => ~custom
    /\ xpc' = [xpc EXCEPT ![x] = IF ok THEN "returned" ELSE OnExtractError]
    /\ xret' = [xret EXCEPT ![x] = ok]
    /\ LET sessionData == SnapshotOf(x)
       IN IF ~ok THEN UNCHANGED <<xsnap, sFile, backups, navUnsaved>>
          ELSE /\ xsnap' = [xsnap EXCEPT ![x] = sessionData]
               /\ IF xkind[x] = "export"
                  THEN /\ sFile' = WriteFile(sFile, sessionData)
                       /\ navUnsaved' = FALSE
                       /\ UNCHANGED backups
                  ELSE /\ backups' = {b \in backups : b.name # BackupName(custom, clock)}
                                        \cup {[name |-> BackupName(custom, clock),
                                                savedAt |-> clock]}
                       /\ UNCHANGED <<sFile, navUnsaved>>
    /\ UNCHANGED <<clock, sPage, ld, twin, ipc, xkind>>
    /\ UNCHANGED notSessVars

\* the endpoint answers with the result (server.js:181-196)
EndpointResponds(x) ==
    /\ ipc = "ready" /\ xpc[x] = "returned"
    /\ xpc' = [xpc EXCEPT ![x] = "idle"]
    /\ UNCHANGED <<sFile, backups, clock, sPage, ld, twin, ipc, navUnsaved, xkind, xsnap, xret>>
    /\ UNCHANGED notSessVars

\* the environment: the site sets a cookie
SiteCookies ==
    {[name |-> "sid", domain |-> "lmarena.ai", expires |-> -1],
     [name |-> "cf", domain |-> ".lmarena.ai", expires |-> 3, partitionKey |-> "site"]}
PageSetsCookie(cookie) ==
    /\ ~sPage.closed /\ sPage.url # "blank"
    /\ Len(sPage.cookies) < MaxCookies
    /\ \A i \in 1 .. Len(sPage.cookies) : sPage.cookies[i] # cookie
    /\ sPage' = [sPage EXCEPT !.cookies = Append(@, cookie)]
    /\ UNCHANGED <<sFile, backups, clock, ld, twin, ipc, navUnsaved, xpc, xkind, xsnap, xret>>
    /\ UNCHANGED notSessVars

\* the environment: the page is closed or crashes
SessionPageCloses ==
    /\ ~sPage.closed
    /\ sPage' = [sPage EXCEPT !.closed = TRUE]
    /\ UNCHANGED <<sFile, backups, clock, ld, twin, ipc, navUnsaved, xpc, xkind, xsnap, xret>>
    /\ UNCHANGED notSessVars

\* the environment: a second passes
Tick ==
    /\ clock < MaxClock
    /\ clock' = clock + 1
    /\ UNCHANGED <<sFile, backups, sPage, ld, twin, ipc, navUnsaved, xpc, xkind, xsnap, xret>>
    /\ UNCHANGED notSessVars

Exporters == {1, 2}

\* no session file, nothing started
InitSess ==
    /\ sFile = NoFile /\ backups = {} /\ clock = 2
    /\ sPage = FreshPage /\ ld = NotLoaded /\ twin = [ld |-> NotLoaded, page |-> FreshPage]
    /\ ipc = "none" /\ navUnsaved = FALSE
    /\ xpc = [x \in Exporters |-> "idle"] /\ xkind = [x \in Exporters |-> "export"]
    /\ xsnap = [x \in Exporters |-> NoSnapshot] /\ xret = [x \in Exporters |-> FALSE]

\* a server after a successful startup that found no session file and
\* exported its own
InitSessReady ==
    /\ sFile = SessionFile(<<>>, {}, 2, "direct") /\ backups = {} /\ clock = 2
    /\ sPage = [FreshPage EXCEPT !.url = "direct"]
    /\ ld = LoadStart(NoFile) /\ twin = [ld |-> LoadStart(NoFile), page |-> FreshPage]
    /\ ipc = "ready" /\ navUnsaved = FALSE
    /\ xpc = [x \in Exporters |-> "idle"] /\ xkind = [x \in Exporters |-> "export"]
    /\ xsnap = [x \in Exporters |-> NoSnapshot] /\ xret = [x \in Exporters |-> FALSE]

\* an initialization at its loadSession call, with any session file
InitLoad ==
    /\ sFile \in Files /\ backups = {} /\ clock = 2
    /\ sPage = FreshPage /\ ld = NotLoaded /\ twin = [ld |-> NotLoaded, page |-> FreshPage]
    /\ ipc = "load" /\ navUnsaved = FALSE
    /\ xpc = [x \in Exporters |-> "idle"] /\ xkind = [x \in Exporters |-> "export"]
    /\ xsnap = [x \in Exporters |-> NoSnapshot] /\ xret = [x \in Exporters |-> FALSE]

\* an initialization at its exportSession call, after a load that found no
\* usable session file
InitExport ==
    /\ sFile \in {NoFile} \cup OddFiles /\ backups = {} /\ clock = 2
    /\ sPage = [FreshPage EXCEPT !.url = "direct"]
    /\ ld = LoadStart(sFile) /\ twin = [ld |-> LoadStart(sFile), page |-> FreshPage]
    /\ ipc = "export" /\ navUnsaved = TRUE
    /\ xpc = [x \in Exporters |-> "idle"] /\ xkind = [x \in Exporters |-> "export"]
    /\ xsnap = [x \in Exporters |-> NoSnapshot] /\ xret = [x \in Exporters |-> FALSE]

\* the session part of one initialization
NextSession ==
    \/ LoadSessionCall
    \/ \E ok \in BOOLEAN : LoadGoto1(ok)
    \/ \E ok \in BOOLEAN : LoadSetCookie(ok)
    \/ \E ok \in BOOLEAN : LoadGoto2(ok)
    \/ \E ok \in BOOLEAN : LoadEvaluate(ok)
    \/ \E ok \in BOOLEAN : InitNavigate(ok)
    \/ InitExportCall
    \/ \E ok \in BOOLEAN : ExtractCookies(1, ok)
    \/ \E ok \in BOOLEAN : ExtractStorage(1, ok, FALSE)
    \/ InitExportReturns

\* exports and backups of a running server
NextExport ==
    \/ InitExportCall
    \/ InitExportReturns
    \/ \E kind \in {"export", "save"}, handle \in {"page", "null"} : EndpointCall(1, kind, handle)
    \/ \E ok \in BOOLEAN : ExtractCookies(1, ok)
    \/ \E ok, custom \in BOOLEAN : ExtractStorage(1, ok, custom)
    \/ EndpointResponds(1)
    \/ \E cookie \in SiteCookies : PageSetsCookie(cookie)
    \/ SessionPageCloses
    \/ Tick

\* two requests to the export endpoints whose calls of exportSession overlap
NextOverlap ==
    \/ \E x \in Exporters : EndpointCall(x, "export", "page")
    \/ \E x \in Exporters, ok \in BOOLEAN : ExtractCookies(x, ok)
    \/ \E x \in Exporters, ok \in BOOLEAN : ExtractStorage(x, ok, FALSE)
    \/ \E x \in Exporters : EndpointResponds(x)
    \/ \E cookie \in SiteCookies : PageSetsCookie(cookie)
    \/ Tick

(* ------------------- a startup followed by requests -------------------- *)
\* the server start called initializeBrowser (server.js:1662-1666), whose
\* closure launched the browser and made the page (server.js:794-843) and is
\* at its loadSession call (server.js:847)
InitStarting ==
    /\ globalBrowser = 0 /\ globalContext = 0 /\ globalPage = 0
    /\ isInitializing = TRUE
    /\ initializationPromise = 1
    /\ initPc = [i \in InitIds |-> IF i = 1 THEN "load" ELSE "none"]
    /\ nInits = 1
    /\ browserState = [i \in InitIds |-> IF i = 1 THEN "live" ELSE "none"]
    /\ pageClosed = [i \in InitIds |-> FALSE]
    /\ listening = FALSE
    /\ cpc = [c \in AllProcs |-> IF c = Starter THEN "await1" ELSE "idle"]
    /\ ckind = [c \in AllProcs |-> IF c = Starter THEN "startup" ELSE "chat"]
    /\ cwait = [c \in AllProcs |-> IF c = Starter THEN [type |-> "promise", id |-> 1]
                                   ELSE NoWait]
    /\ cpage = [c \in AllProcs |-> 0]
    /\ cjoined = [c \in AllProcs |-> IF c = Starter THEN 1 ELSE 0]

\* the closure of initialization 1 gets past a step when the session steps
\* of that step are over: loadSession returned whatever value (server.js:847),
\* gotoWithRetries returned or threw (server.js:851)
Follows(ok) ==
    CASE initPc[1] = "load" -> ld.pc = "done" /\ ipc = "load" /\ ok
      [] initPc[1] = "goto" -> ipc \in {"export", "failed"} /\ ok = (ipc = "export")
      [] initPc[1] \in {"ready", "check"} -> ok
      [] OTHER -> FALSE
StartAdvance(ok) == Follows(ok) /\ InitAdvance(1, ok)

\* the stores of server.js:889-897 follow the return of exportSession
StartFinish == ipc = "ready" /\ InitFinish(1)

\* initialization 1 in both views, then the requests of one client
NextStart ==
    \/ initPc[1] = "load" /\ LoadSessionCall
    \/ \E ok \in BOOLEAN : LoadGoto1(ok)
    \/ \E ok \in BOOLEAN : LoadSetCookie(ok)
    \/ \E ok \in BOOLEAN : LoadGoto2(ok)
    \/ \E ok \in BOOLEAN : LoadEvaluate(ok)
    \/ \E ok \in BOOLEAN : initPc[1] = "goto" /\ InitNavigate(ok)
    \/ \E ok \in BOOLEAN : StartAdvance(ok)
    \/ initPc[1] = "export" /\ InitExportCall
    \/ \E ok \in BOOLEAN : ExtractCookies(1, ok)
    \/ \E ok \in BOOLEAN : ExtractStorage(1, ok, FALSE)
    \/ InitExportReturns
    \/ StartFinish
    \/ StartServerResume
    \/ \E c \in Followed : globalPage = 1 /\ NewRequest(c, "chat")
    \/ \E c \in Followed : ChatResume1(c)
    \/ \E c \in Followed, message \in Messages, inputFound \in BOOLEAN :
          ChatBegin(c, message, inputFound, "stay", FALSE)
    \/ \E c \in Followed : TypeChar(c)
    \/ \E c \in Followed, hasButton \in BOOLEAN : TypeDone(c, hasButton)
    \/ \E c \in Followed, r \in Reactions, throws \in BOOLEAN : ClickSend(c, r, throws)
    \/ \E c \in Followed, r \in Reactions : PressEnter(c, r)
    \/ \E c \in Followed : CheckSent(c)
    \/ \E c \in Followed, messages \in Transcripts : ReplyWaitReturns(c, messages)
    \/ \E c \in Followed : ChatEnd(c)

(* ----------------------- the page's conversation ----------------------- *)
\* a new conversation
InitPage == pTurns = <<>> /\ pBase = 0

\* the page takes a submitted message (the text does not matter here): the
\* user turn is rendered after the turns there are
PageSubmits ==
    /\ wpc = "idle"
    /\ Len(pTurns) % 2 = 0 /\ Len(pTurns) + 2 <= MaxEntries
    /\ pBase' = Len(pTurns)
    /\ pTurns' = Append(pTurns, "hi")
    /\ UNCHANGED <<lifeVars, waitVars, chatVars, fnVars, sessVars, gateVars>>

\* the page renders the assistant turn of the last user turn, or more of it
\* while it streams
PageRenders(text) ==
    /\ pTurns # <<>>
    /\ IF Len(pTurns) % 2 = 1
       THEN pTurns' = Append(pTurns, text)
       ELSE /\ TextLen(text) > TextLen(pTurns[Len(pTurns)])
            /\ pTurns' = [pTurns EXCEPT ![Len(pTurns)] = text]
    /\ UNCHANGED pBase
    /\ UNCHANGED <<lifeVars, waitVars, chatVars, fnVars, sessVars, gateVars>>

\* what the page.evaluate of getAllMessages gives on that page
\* (server.js:367-374)
PageEvals == {[throws |-> TRUE, value |-> <<>>], [throws |-> FALSE, value |-> pTurns]}

\* the reply wait of the request that submitted the last message
\* (server.js:1621-1628)
NextReply ==
    \/ PageSubmits
    \/ \E text \in Texts : PageRenders(text)
    \/ Len(pTurns) > pBase /\ WaitStart
    \/ \E mev \in PageEvals, sev \in StreamEvals, cost \in PollCost : WaitPoll(mev, sev, cost)
    \/ \E mev \in PageEvals : WaitExpire(mev)

(* ------------------ gotoWithRetries, waitForPageReady ------------------ *)
NoError == [attempt |-> -1, kind |-> "none"]
\* no call of gotoWithRetries yet
NoGoto ==
    [pc |-> "idle", maxRetries |-> 0, attempt |-> 0, tries |-> 0, loaded |-> FALSE,
     last |-> NoError, value |-> "none", thrown |-> NoError]

\* gotoWithRetries is called (server.js:496-497); its callers pass 3
GotoCall(maxRetries) ==
    /\ goRun.pc = "idle"
    /\ goRun' = [NoGoto EXCEPT !.pc = "loop", !.maxRetries = maxRetries]
    /\ UNCHANGED <<readyRun, secRun, secPage, clickRun, selRun>>
    /\ UNCHANGED <<lifeVars, waitVars, chatVars, fnVars, sessVars, pageVars>>

\* how an attempt ends: the page has a body with children ("loaded"), it has
\* none and the attempt throws its own error ("empty", server.js:525-529),
\* page.goto or page.evaluate throws ("failed"), or throws an error whose
\* message includes 'Requesting main frame too early' ("frame")
AttemptOutcomes == {"loaded", "empty", "failed", "frame"}

\* one iteration of the loop (server.js:497-547) and, when the loop ends
\* with it, the end of the function: the body of the try (499-529), the catch
\* (530-545), the loop's attempt++ and test, the implicit return of 548
GotoAttempt(outcome) ==
    /\ goRun.pc = "loop" /\ goRun.attempt < goRun.maxRetries
    /\ LET error == [attempt |-> goRun.attempt, kind |-> outcome]
           n == [goRun EXCEPT !.tries = @ + 1, !.loaded = (outcome = "loaded"),
                            !.last = IF outcome = "loaded" THEN NoError ELSE error]
           again == IF goRun.attempt + 1 < goRun.maxRetries
                    THEN [n EXCEPT !.attempt = @ + 1]
                    ELSE [n EXCEPT !.attempt = @ + 1, !.pc = "returned",
                                   !.value = "undefined"]
       IN goRun' = CASE outcome = "loaded" -> [n EXCEPT !.pc = "returned", !.value = "true"]
                   [] outcome = "frame" -> again
                   [] OTHER -> IF goRun.attempt < goRun.maxRetries - 1 THEN again
                               ELSE [n EXCEPT !.pc = "threw", !.thrown = error]
    /\ UNCHANGED <<readyRun, secRun, secPage, clickRun, selRun>>
    /\ UNCHANGED <<lifeVars, waitVars, chatVars, fnVars, sessVars, pageVars>>

\* no call of waitForPageReady yet
NoReady ==
    [pc |-> "idle", maxWaitTime |-> 0, elapsed |-> 0, held |-> FALSE, errors |-> 0,
     value |-> FALSE]

\* waitForPageReady is called (server.js:552-556)
ReadyCall(maxWaitTime) ==
    /\ readyRun.pc = "idle"
    /\ readyRun' = [NoReady EXCEPT !.pc = "loop", !.maxWaitTime = maxWaitTime]
    /\ UNCHANGED <<goRun, secRun, secPage, clickRun, selRun>>
    /\ UNCHANGED <<lifeVars, waitVars, chatVars, fnVars, sessVars, pageVars>>

\* what the page.evaluate of a poll does: the predicate holds, it does not,
\* or the evaluation throws
ReadyOutcomes == {"ready", "notready", "throws"}

\* after the wait of a poll that was not ready: the loop test of
\* server.js:556 and the return of 613
AfterWait(r, cost) ==
    LET e == r.elapsed + cost
    IN IF e < r.maxWaitTime THEN [r EXCEPT !.elapsed = e]
       ELSE [r EXCEPT !.elapsed = e, !.pc = "returned", !.value = FALSE]

\* mutant: waitForPageReady without the catch of server.js:606
ReadyStepNoCatch(r, outcome, cost) ==
    CASE outcome = "ready" -> [r EXCEPT !.pc = "returned", !.value = TRUE, !.held = TRUE]
      [] outcome = "notready" -> AfterWait([r EXCEPT !.held = FALSE], cost)
      [] OTHER -> [r EXCEPT !.pc = "threw", !.held = FALSE, !.errors = @ + 1]

\* one iteration of the loop (server.js:556-610) and, when the loop ends with
\* it, the return of 613
ReadyStep(r, outcome, cost) ==
    CASE outcome = "ready" -> [r EXCEPT !.pc = "returned", !.value = TRUE, !.held = TRUE]
      [] outcome = "notready" -> AfterWait([r EXCEPT !.held = FALSE], cost)
      [] OTHER -> AfterWait([r EXCEPT !.held = FALSE, !.errors = @ + 1], cost)

\* a poll: the evaluation and the wait of 2000 ms that follows take one
\* wait or, with a slow page, more
ReadyPoll(outcome, cost) ==
    /\ readyRun.pc = "loop" /\ readyRun.elapsed < readyRun.maxWaitTime
    /\ readyRun' = ReadyStep(readyRun, outcome, cost)
    /\ UNCHANGED <<goRun, secRun, secPage, clickRun, selRun>>
    /\ UNCHANGED <<lifeVars, waitVars, chatVars, fnVars, sessVars, pageVars>>

(* --------------------- checkSecurityVerification ---------------------- *)
\* the fingerprints that all three predicates of the function test (one of
\* the four phrases and one of the two markup strings stand for the seven of
\* server.js:644-650), and the phrase only the first one tests (626)
ChallengeMarks == {"just a moment", "cf-challenge"}
Fingerprints == ChallengeMarks \cup {"cloudflare"}
SecPages == [marks : SUBSET Fingerprints, content : BOOLEAN]

\* the site's page without a challenge
SitePage == [marks |-> {}, content |-> TRUE]

\* the predicate evaluated first (server.js:619-630)
hasSecurityVerification(page) == page.marks \cap Fingerprints # {}
\* the predicate evaluated in the loop (server.js:641-651)
stillPresent(page) == page.marks \cap ChallengeMarks # {}
\* the predicate evaluated once stillPresent is false (server.js:655-669);
\* content is hasLMArenaContent
finalCheck(page) == page.marks \cap ChallengeMarks = {} /\ page.content

\* no call of checkSecurityVerification yet; elapsed counts waits of 3000 ms
\* (the wait of 2000 ms before the return of 675 counts as one)
NoSec == [pc |-> "idle", elapsed |-> 0, how |-> "none", value |-> FALSE]

\* mutant: checkSecurityVerification without the catch of server.js:690
SecCatchMissing(r) == [r EXCEPT !.pc = "threw", !.how = "error"]

\* the catch (server.js:690-693)
SecCatch(r) == [r EXCEPT !.pc = "returned", !.how = "error", !.value = TRUE]

\* the end of an iteration that did not return: the loop test of
\* server.js:638 and, when it fails, the return of 689
SecLoopTest(r) ==
    IF r.elapsed < SecMaxWait THEN [r EXCEPT !.pc = "loop"]
    ELSE [r EXCEPT !.pc = "returned", !.how = "timedout", !.value = TRUE]

\* checkSecurityVerification is called (server.js:617) on a page that shows
\* anything
SecCall(page) ==
    /\ secRun.pc = "idle"
    /\ secRun' = [NoSec EXCEPT !.pc = "detect"]
    /\ secPage' = page
    /\ UNCHANGED <<goRun, readyRun, clickRun, selRun>>
    /\ UNCHANGED <<lifeVars, waitVars, chatVars, fnVars, sessVars, pageVars>>

\* the first evaluation (server.js:619-632) and, without a challenge, the
\* return of 689
SecDetect(throws) ==
    /\ secRun.pc = "detect"
    /\ secRun' = IF throws THEN SecCatch(secRun)
                 ELSE IF hasSecurityVerification(secPage) THEN SecLoopTest(secRun)
                 ELSE [secRun EXCEPT !.pc = "returned", !.how = "nochallenge",
                                     !.value = TRUE]
    /\ UNCHANGED <<goRun, readyRun, secPage, clickRun, selRun>>
    /\ UNCHANGED <<lifeVars, waitVars, chatVars, fnVars, sessVars, pageVars>>

\* the wait and the evaluation that open an iteration (server.js:639-653)
SecPoll(throws) ==
    /\ secRun.pc = "loop"
    /\ LET r == [secRun EXCEPT !.elapsed = @ + 1]
       IN secRun' = IF throws THEN SecCatch(r)
                    ELSE IF stillPresent(secPage) THEN SecLoopTest(r)
                    ELSE [r EXCEPT !.pc = "final"]
    /\ UNCHANGED <<goRun, readyRun, secPage, clickRun, selRun>>
    /\ UNCHANGED <<lifeVars, waitVars, chatVars, fnVars, sessVars, pageVars>>

\* the second wait and the final check of an iteration (server.js:654-677)
SecFinal(throws) ==
    /\ secRun.pc = "final"
    /\ LET r == [secRun EXCEPT !.elapsed = @ + 1]
       IN secRun' = IF throws THEN SecCatch(r)
                    ELSE IF finalCheck(secPage)
                    THEN [r EXCEPT !.elapsed = @ + 1, !.pc = "returned",
                                   !.how = "completed", !.value = TRUE]
                    ELSE SecLoopTest(r)
    /\ UNCHANGED <<goRun, readyRun, secPage, clickRun, selRun>>
    /\ UNCHANGED <<lifeVars, waitVars, chatVars, fnVars, sessVars, pageVars>>

\* the page changes while the function waits: the challenge appears, is
\* solved, the site's content arrives
SecPageChanges(page) ==
    /\ secRun.pc \in {"detect", "loop", "final"}
    /\ page # secPage
    /\ secPage' = page
    /\ UNCHANGED <<goRun, readyRun, secRun, clickRun, selRun>>
    /\ UNCHANGED <<lifeVars, waitVars, chatVars, fnVars, sessVars, pageVars>>

(* ----------------------------- waitAndClick --------------------------- *)
\* the default of the retries option (server.js:465)
DefaultRetries == 3
\* delayMs in units of the default, 500 ms
DefaultDelay == 1
Delays == {1, 2}

\* no call of waitAndClick yet.  log holds how each attempt ended, waits the
\* waits made before the retries, thrown the attempt whose error left the
\* function (0: none)
NoClick ==
    [pc |-> "idle", retries |-> 0, delayMs |-> 0, attempt |-> 0, log |-> <<>>,
     waits |-> <<>>, thrown |-> 0]

\* mutant: the backoff computed from the loop variable as it is
ClickBackoffFromZero(delayMs, attempt) == delayMs * attempt

\* the wait before the retry that follows the failed attempt (server.js:487)
ClickBackoff(delayMs, attempt) == delayMs * (attempt + 1)

\* the call with its options (server.js:464-468)
ClickStart(retries, delayMs) ==
    [NoClick EXCEPT !.pc = "loop", !.retries = retries, !.delayMs = delayMs]

\* one iteration of the loop (server.js:468-491): the lookup, the bounding
\* box, the click and the return of 483, or the catch with its wait and the
\* attempt++, or the throw of 490.  An attempt fails when the lookup, the
\* bounding box or the click throws.
ClickStep(r, clicked) ==
    LET n == [r EXCEPT !.log = Append(@, clicked)]
    IN IF clicked THEN [n EXCEPT !.pc = "returned"]
       ELSE IF r.attempt < r.retries
       THEN [n EXCEPT !.waits = Append(@, ClickBackoff(r.delayMs, r.attempt)),
                      !.attempt = @ + 1]
       ELSE [n EXCEPT !.pc = "threw", !.thrown = Len(n.log)]

\* waitAndClick is called by one of its callers
ClickCall(retries, delayMs) ==
    /\ clickRun.pc = "idle" /\ selRun.pc \in {"idle", "typing"}
    /\ clickRun' = ClickStart(retries, delayMs)
    /\ UNCHANGED <<goRun, readyRun, secRun, secPage, selRun>>
    /\ UNCHANGED <<lifeVars, waitVars, chatVars, fnVars, sessVars, pageVars>>

ClickAttempt(clicked) ==
    /\ clickRun.pc = "loop" /\ clickRun.attempt <= clickRun.retries
    /\ clickRun' = ClickStep(clickRun, clicked)
    /\ UNCHANGED <<goRun, readyRun, secRun, secPage, selRun>>
    /\ UNCHANGED <<lifeVars, waitVars, chatVars, fnVars, sessVars, pageVars>>

(* --------------------- model selection of POST /chat ------------------ *)
\* the model of the request body: absent, the default, another one
Models == {"absent", "gemini-2.5-pro", "other"}

\* no model selection yet.  opened: dropdownOpened; selected: an option was
\* clicked; escape: whether Escape was pressed and how the press ended
NoSel ==
    [pc |-> "idle", model |-> "absent", opened |-> FALSE, selected |-> FALSE,
     escape |-> "none"]

\* mutant: the catch blocks of the selection without the Escape
SelCaughtNoEscape(r) == [r EXCEPT !.pc = "typing"]

\* the catch blocks of server.js:1246-1252 and 1254-1260, up to the press
SelCaught(r) == [r EXCEPT !.pc = "escape"]

\* the test of server.js:1199
SelBegin(model) ==
    /\ selRun.pc = "idle" /\ clickRun.pc = "idle"
    /\ selRun' = IF model \in {"absent", "gemini-2.5-pro"}
                 THEN [NoSel EXCEPT !.pc = "typing", !.model = model]
                 ELSE [NoSel EXCEPT !.pc = "open", !.model = model]
    /\ UNCHANGED <<goRun, readyRun, secRun, secPage, clickRun>>
    /\ UNCHANGED <<lifeVars, waitVars, chatVars, fnVars, sessVars, pageVars>>

\* the evaluation that clicks a combobox (server.js:1204-1218, 1261-1266)
SelOpen(outcome) ==
    /\ selRun.pc = "open"
    /\ selRun' = CASE outcome = "opened" -> [selRun EXCEPT !.pc = "byvalue", !.opened = TRUE]
                   [] outcome = "absent" -> [selRun EXCEPT !.pc = "typing"]
                   [] OTHER -> [selRun EXCEPT !.pc = "typing"]
    /\ UNCHANGED <<goRun, readyRun, secRun, secPage, clickRun>>
    /\ UNCHANGED <<lifeVars, waitVars, chatVars, fnVars, sessVars, pageVars>>

\* the evaluation that looks for the option by data-value
\* (server.js:1223-1238, 1254-1255)
SelByValue(outcome) ==
    /\ selRun.pc = "byvalue"
    /\ selRun' = CASE outcome = "selected" -> [selRun EXCEPT !.pc = "typing", !.selected = TRUE]
                   [] outcome = "notfound" -> [selRun EXCEPT !.pc = "bytext"]
                   [] OTHER -> SelCaught(selRun)
    /\ UNCHANGED <<goRun, readyRun, secRun, secPage, clickRun>>
    /\ UNCHANGED <<lifeVars, waitVars, chatVars, fnVars, sessVars, pageVars>>

\* the lookup of the option by its text (server.js:1241-1243): tryXPath
\* throws when it finds nothing, else waitAndClick is called with the
\* default options
SelByText(found) ==
    /\ selRun.pc = "bytext"
    /\ IF found
       THEN /\ selRun' = [selRun EXCEPT !.pc = "click"]
            /\ clickRun' = ClickStart(DefaultRetries, DefaultDelay)
       ELSE /\ selRun' = SelCaught(selRun)
            /\ UNCHANGED clickRun
    /\ UNCHANGED <<goRun, readyRun, secRun, secPage>>
    /\ UNCHANGED <<lifeVars, waitVars, chatVars, fnVars, sessVars, pageVars>>

\* waitAndClick settles (server.js:1243-1247)
SelClickSettles ==
    /\ selRun.pc = "click" /\ clickRun.pc \in {"returned", "threw"}
    /\ selRun' = IF clickRun.pc = "returned"
                 THEN [selRun EXCEPT !.pc = "typing", !.selected = TRUE]
                 ELSE SelCaught(selRun)
    /\ clickRun' = NoClick
    /\ UNCHANGED <<goRun, readyRun, secRun, secPage>>
    /\ UNCHANGED <<lifeVars, waitVars, chatVars, fnVars, sessVars, pageVars>>

\* the press of Escape, whose own error is swallowed
\* (server.js:1248-1251, 1256-1259)
SelEscape(ok) ==
    /\ selRun.pc = "escape"
    /\ selRun' = [selRun EXCEPT !.pc = "typing",
                                !.escape = IF ok THEN "pressed" ELSE "failed"]
    /\ UNCHANGED <<goRun, readyRun, secRun, secPage, clickRun>>
    /\ UNCHANGED <<lifeVars, waitVars, chatVars, fnVars, sessVars, pageVars>>

\* the request is over; the next one begins its own selection
SelNext ==
    /\ selRun.pc = "typing"
    /\ selRun' = NoSel
    /\ UNCHANGED <<goRun, readyRun, secRun, secPage, clickRun>>
    /\ UNCHANGED <<lifeVars, waitVars, chatVars, fnVars, sessVars, pageVars>>

\* a finished call of waitAndClick is forgotten
ClickNext ==
    /\ clickRun.pc \in {"returned", "threw"} /\ selRun.pc # "click"
    /\ clickRun' = NoClick
    /\ UNCHANGED <<goRun, readyRun, secRun, secPage, selRun>>
    /\ UNCHANGED <<lifeVars, waitVars, chatVars, fnVars, sessVars, pageVars>>

SelOutcomes == {"opened", "absent", "throws"}
OptionOutcomes == {"selected", "notfound", "throws"}

\* the model selection of a request and calls of waitAndClick
NextSelect ==
    \/ \E retries \in 0 .. MaxClickRetries, delayMs \in Delays : ClickCall(retries, delayMs)
    \/ \E clicked \in BOOLEAN : ClickAttempt(clicked)
    \/ ClickNext
    \/ \E model \in Models : SelBegin(model)
    \/ \E outcome \in SelOutcomes : SelOpen(outcome)
    \/ \E outcome \in OptionOutcomes : SelByValue(outcome)
    \/ \E found \in BOOLEAN : SelByText(found)
    \/ SelClickSettles
    \/ \E ok \in BOOLEAN : SelEscape(ok)
    \/ SelNext

\* no call yet
InitGates ==
    /\ goRun = NoGoto /\ readyRun = NoReady
    /\ secRun = NoSec /\ secPage = SitePage
    /\ clickRun = NoClick /\ selRun = NoSel

NextGates ==
    \/ \E maxRetries \in 1 .. MaxRetries : GotoCall(maxRetries)
    \/ \E outcome \in AttemptOutcomes : GotoAttempt(outcome)
    \/ \E maxWaitTime \in 1 .. MaxReadyWait : ReadyCall(maxWaitTime)
    \/ \E outcome \in ReadyOutcomes, cost \in PollCost : ReadyPoll(outcome, cost)

\* a call of checkSecurityVerification and the page it watches
NextSec ==
    \/ \E page \in SecPages : SecCall(page)
    \/ \E throws \in BOOLEAN : SecDetect(throws)
    \/ \E throws \in BOOLEAN : SecPoll(throws)
    \/ \E throws \in BOOLEAN : SecFinal(throws)
    \/ \E page \in SecPages : SecPageChanges(page)

(* ----------------------- claims: browser lifecycle -------------------- *)
LiveBrowsers == {b \in InitIds : browserState[b] = "live"}

\* C1: single flight.  At most one initialization is in flight; every handler
\* that waits for an unsettled initialization waits for that one, which is the
\* one initializationPromise names; and a handler that waited for an
\* initialization ends with that initialization's result: its page if it
\* resolved, the failure if it rejected.
C1_SingleFlight ==
    /\ Cardinality(InFlight) <= 1
    /\ \A c \in AllProcs :
         (cwait[c].type = "promise" /\ ~Settled(cwait[c].id)) =>
             /\ InFlight = {cwait[c].id}
             /\ isInitializing /\ initializationPromise = cwait[c].id
    /\ \A c \in Procs :
         /\ (cpc[c] = "acquired" /\ cjoined[c] # 0) =>
               (initPc[cjoined[c]] = "resolved" /\ cpage[c] = cjoined[c])
         /\ (cpc[c] = "failed" /\ ckind[c] = "chat") =>
               (cjoined[c] # 0 /\ initPc[cjoined[c]] = "rejected")

\* two handlers wait for the same initialization, which is still running
C1_Witness ==
    \E c1, c2 \in Procs :
        /\ c1 # c2
        /\ cwait[c1].type = "promise" /\ cwait[c2] = cwait[c1]
        /\ cwait[c1].id \in InFlight

\* C2: at most one browser launched by initializeBrowser is alive
C2_AtMostOneLiveBrowser == Cardinality(LiveBrowsers) <= 1

\* C3: lazy invalidation.  A call made while nothing is in flight gets the
\* stored handle only if the stored page is open at that call; with no stored
\* handle or a closed stored page it starts a new initialization and waits
\* for it.
C3_Call(c) ==
    /\ ~isInitializing
    /\ \/ cpc[c] = "idle" /\ cpc'[c] = "await1"
       \/ cpc[c] = "await1" /\ cpc'[c] = "await2"
C3_LazyInvalidation ==
    [][\A c \in AllProcs : C3_Call(c) =>
          /\ cwait'[c].type = "value" =>
                /\ cpc[c] = "idle"
                /\ globalBrowser # 0 /\ globalPage # 0 /\ ~pageClosed[globalPage]
                /\ cwait'[c].id = globalPage
                /\ nInits' = nInits /\ ~isInitializing'
          /\ (cpc[c] = "await1" \/ globalBrowser = 0 \/ globalPage = 0
                \/ pageClosed[globalPage]) =>
                /\ nInits' = nInits + 1
                /\ cwait'[c] = [type |-> "promise", id |-> nInits']
                /\ initPc'[nInits'] = "launch" /\ isInitializing'
                /\ initializationPromise' = nInits']_vars

\* one handler found the stored page closed and waits for the initialization
\* it started; the closed page is still the stored one
C3_Witness ==
    \E c \in Procs :
        /\ cpc[c] = "await1" /\ cwait[c].type = "promise"
        /\ initPc[cwait[c].id] = "launch"
        /\ globalPage # 0 /\ globalPage # cwait[c].id /\ pageClosed[globalPage]
        /\ \A d \in AllProcs \ {c} : cpc[d] \in {"idle", "done"}

\* C4: failure policy.  When an initialization fails, no handle stays stored,
\* and every request that waited for it fails.
C4_FailureClearsSingleton ==
    [][/\ \A i \in InitIds :
            (initPc[i] \in InFlightPcs /\ initPc'[i] = "rejected") =>
                (globalBrowser' = 0 /\ globalContext' = 0 /\ globalPage' = 0)
       /\ \A c \in Procs :
            (Resumable(c) /\ AwaitRejected(c) /\ cpc'[c] # cpc[c]) =>
                cpc'[c] = "failed"]_vars

\* C23: an initialization failure does not leave the lifecycle stuck: the
\* step that settles an initialization leaves isInitializing false; a call
\* of initializeBrowser made while the last initialization is a failed one
\* starts a new initialization and waits for that one; and the server start
\* goes on to listen whatever its initialization did
C23_NeverStuck ==
    [][/\ \A i \in InitIds :
            (initPc[i] \in InFlightPcs /\ initPc'[i] \in {"resolved", "rejected"})
                => ~isInitializing'
       /\ \A c \in AllProcs :
            (/\ cwait'[c] # cwait[c] /\ cwait'[c].type # "none"
             /\ initializationPromise # 0
             /\ initPc[initializationPromise] = "rejected")
                => /\ initPc[nInits + 1] = "none" /\ initPc'[nInits + 1] = "launch"
                   /\ cwait'[c] = [type |-> "promise", id |-> nInits + 1]
                   /\ initializationPromise' = nInits + 1
       /\ (cpc[Starter] = "await1" /\ cpc'[Starter] # "await1") => listening'
      ]_vars
\* the startup initialization failed, the server listens, and a request
\* started the next initialization
C23_Witness ==
    /\ initPc[1] = "rejected" /\ listening
    /\ initPc[2] = "rejected" /\ initPc[3] = "launch"
    /\ \E c \in Procs : cwait[c] = [type |-> "promise", id |-> 3]

\* C24: the steps of an initialization come in the order launch, setup,
\* session load, navigation, readiness wait, challenge check, export, and it
\* resolves from the export step only; a stored handle, a handle a handler
\* holds and a handle a settled await gives are of resolved initializations
\* (never of one that is running or that failed)
C24_StoredAfterAllSteps ==
    [][/\ \A i \in InitIds : initPc'[i] # initPc[i] =>
            \/ initPc[i] = "none" /\ initPc'[i] = InitSteps[1]
            \/ \E k \in 1 .. Len(InitSteps) - 1 :
                  initPc[i] = InitSteps[k] /\ initPc'[i] = InitSteps[k + 1]
            \/ initPc[i] = InitSteps[Len(InitSteps)] /\ initPc'[i] = "resolved"
            \/ initPc[i] \in InFlightPcs /\ initPc'[i] = "rejected"
       /\ \A h \in {globalBrowser', globalContext', globalPage'} \ {0} :
            initPc'[h] = "resolved"
       /\ \A c \in AllProcs :
            /\ cpage'[c] # 0 => initPc'[cpage'[c]] = "resolved"
            /\ cwait'[c].type = "value" =>
                  cwait'[c].id # 0 /\ initPc'[cwait'[c].id] = "resolved"
      ]_vars
\* a handler holds the page of the second initialization, which went through
\* all its steps after the first one failed
C24_Witness ==
    /\ initPc[1] = "rejected" /\ initPc[2] = "resolved" /\ globalPage = 2
    /\ \E c \in Procs : cpc[c] = "acquired" /\ cpage[c] = 2

(* ------------------------- claims: reply wait ------------------------- *)
\* a poll that saw a non-empty latest assistant text and no streaming
SettledPoll(o) == Truthy(o.ai) /\ ~o.streaming

\* C5: a return before the timeout follows two consecutive polls that saw
\* the same non-empty latest assistant text with no streaming
C5_TwoConsecutivePolls ==
    (wpc = "returned" /\ ~wTimedOut) =>
        /\ Len(wLog) >= 2
        /\ SettledPoll(wLog[Len(wLog)]) /\ SettledPoll(wLog[Len(wLog) - 1])
        /\ wLog[Len(wLog)].ai = wLog[Len(wLog) - 1].ai

\* C6: when every poll saw a latest assistant text other than the poll
\* before it, the wait ends at its timeout only
C6_ChangingNeverEarly ==
    (wpc = "returned" /\ wAllChanged) => wTimedOut

\* C7: a wait never throws, what it returns is a transcript, and once
\* started it returns
C7_AlwaysReturns ==
    /\ [](wpc # "threw" /\ (wpc = "returned" => wResult \in Transcripts))
    /\ (wpc = "poll") ~> (wpc = "returned")

\* a wait returned at its timeout after an in-page evaluation had failed
C7_Witness == wpc = "returned" /\ wTimedOut /\ wEvalFailed

(* --------------------------- claims: send ----------------------------- *)
\* from the start of the typing step to the end of the reply wait
OnPage(c) ==
    cpc[c] \in {"typing", "select1", "upload1", "select2", "upload2", "select3",
                "upload3", "lookup", "click1", "check1", "click2", "check2", "click3",
                "check3", "enter", "checkE", "wait"}

\* C8: a request that reports success caused exactly one submission
C8_ExactlyOnce ==
    \A c \in Procs : (cpc[c] = "responded" /\ cout[c] = "ok") => csubs[c] = 1

\* C9: a request is in the reply wait, or answers from it, only with a
\* confirmed strategy; with none confirmed it fails (as not sent, or earlier
\* for want of an input surface or of a navigation) and carries no reply text
C9_NeverDropped ==
    \A c \in Procs :
        /\ (cpc[c] = "wait" \/ (cpc[c] = "responded" /\ cout[c] \in {"ok", "short"})) =>
              csent[c] # "none"
        /\ (cpc[c] = "responded" /\ csent[c] = "none") =>
              (cout[c] \in {"notsent", "noinput", "navfailed"} /\ cresp[c] = Null)

\* a request went through the clicks and the Enter key, none was confirmed,
\* and it failed as not sent
C9_Witness ==
    \E c \in Procs :
        cpc[c] = "responded" /\ cout[c] = "notsent" /\ csent[c] = "none"
            /\ ctyped[c] = Len(cmsg[c])

\* C10: at most one request is between its typing step and the end of its
\* reply wait
C10_Serialized == Cardinality({c \in Procs : OnPage(c)}) <= 1

\* C19: the snapshot is written to SESSION_FILE after every successful
\* navigation to the target: an initialization that navigated has written it
\* when it ends, and so has a chat request that navigated when it answers
C19_WrittenAfterNavigation ==
    /\ ipc = "ready" => ~navUnsaved
    /\ \A c \in Procs : cpc[c] = "responded" => ~cnav[c]

\* C20: when a chat request answers, no temporary file it wrote is on disk
C20_TempFilesDeleted ==
    \A c \in Procs : cpc[c] = "responded" => ctmp[c] = 0

(* ------------------------ claims: session store ----------------------- *)
\* the elements of a sequence
Range(q) == {q[i] : i \in DOMAIN q}

\* C13: loadSession never throws; for a missing session file, a file that is
\* not JSON, and JSON of an unrecognised shape (null, a scalar, an object
\* without a cookies array) it returns false, navigates nowhere, calls
\* setCookie with nothing and leaves the page as it was
C13_LoadFailsSoft ==
    /\ ld.pc # "threw"
    /\ (ld.pc # "none" /\ ld.shape \in {"missing", "garbage", "null", "scalar", "object"}) =>
          /\ ld.pc = "done" /\ ~ld.ret
          /\ ~ld.navigated /\ ~ld.called /\ ld.passed = <<>>
          /\ sPage.cookies = <<>> /\ sPage.localStorage = {}
          /\ ipc = "load" => sPage = FreshPage

\* a load of a file holding JSON null returned
C13_Witness == ld.pc = "done" /\ ld.shape = "null" /\ ipc = "load"

\* C14: a load of the bare array C and a load of {cookies: C, localStorage:
\* {}} that see the same outcomes of their awaits are at the same step, pass
\* the same cookies to setCookie, replay the same localStorage, leave equal
\* pages and return the same value
C14_ShapesEquivalent ==
    (ipc = "load" /\ ld.pc # "none" /\ twin.ld.shape # ld.shape) =>
        /\ {ld.shape, twin.ld.shape} = {"array", "session"}
        /\ [twin.ld EXCEPT !.shape = ld.shape] = ld
        /\ twin.page = sPage

\* a load of a bare array installed cookies and returned true
C14_Witness ==
    /\ ipc = "load" /\ ld.pc = "done" /\ ld.shape = "array" /\ twin.ld.shape = "session"
    /\ ld.ret /\ Len(sPage.cookies) = 2

\* the names of the cookies passed to setCookie
PassedNames == {c.name : c \in Range(ld.passed)}

C16_RoundTrip ==
    (xpc[1] = "returned" /\ xret[1] /\ ld.shape = "session"
        /\ \A c \in Range(ld.cookies) : Has(c, "expires") /\ c.expires # 0) =>
        \A c \in Range(xsnap[1].cookies) :
            /\ c \in Range(ld.cookies)
            /\ ~Has(c, "partitionKey") /\ ~IsExpired(c, ld.now)

\* C17: a call of exportSession or saveSession never throws; on a closed
\* page (or without a page) it returns {success: false} at once; and a call
\* that returns {success: false} at any of its steps leaves SESSION_FILE and
\* the backup files as they were
C17_ExtractFailure ==
    [][\A x \in Exporters :
          /\ xpc'[x] # "threw"
          /\ (xpc[x] = "idle" /\ xpc'[x] # "idle" /\ sPage.closed) =>
                (xpc'[x] = "returned" /\ ~xret'[x])
          /\ (xpc[x] # "returned" /\ xpc'[x] = "returned" /\ ~xret'[x]) =>
                (sFile' = sFile /\ backups' = backups)]_vars

\* an export on a closed page returned {success: false} and the file still
\* holds the snapshot of an earlier export
C17_Witness ==
    /\ xpc[1] = "returned" /\ ~xret[1] /\ xkind[1] = "export" /\ ipc = "ready"
    /\ sPage.closed /\ sFile.shape = "session"

\* an export writes the file
ExportWrites(x) == xpc[x] = "storage" /\ xpc'[x] = "returned" /\ xret'[x] /\ xkind[x] = "export"
\* the file holds a snapshot of the page as it is, and the export read the
\* same cookies
SamePage(x) ==
    /\ sFile.shape = "session" /\ sFile.cookies = sPage.cookies
    /\ sFile.localStorage = sPage.localStorage /\ sFile.url = sPage.url
    /\ xsnap[x].cookies = sPage.cookies

\* C18 as stated: an export on a page that the file already holds a snapshot
\* of leaves the file content as it was
C18_IdempotentAsStated ==
    [][\A x \in Exporters : (ExportWrites(x) /\ SamePage(x)) => sFile' = sFile]_vars

\* C18: what an export writes is the snapshot it extracted, whatever the
\* file held before; on a page that the file already holds a snapshot of,
\* the file changes in savedAt only
C18_ExportReplaces ==
    [][\A x \in Exporters : ExportWrites(x) =>
          /\ sFile' = SessionFile(xsnap[x].cookies, sPage.localStorage, clock, sPage.url)
          /\ SamePage(x) => [sFile' EXCEPT !.savedAt = sFile.savedAt] = sFile]_vars

\* a second export is about to write while the file holds the snapshot an
\* earlier second took of the same page
C18_Witness ==
    /\ xpc[1] = "storage" /\ xkind[1] = "export" /\ ~sPage.closed
    /\ sFile.shape = "session" /\ sFile.cookies = sPage.cookies /\ Len(sPage.cookies) = 2
    /\ xsnap[1].cookies = sPage.cookies /\ sFile.savedAt < clock

(* --------------------- claims: transcript functions ------------------- *)
\* the 0-based odd indexes of a transcript
OddIndexes(messages) == {i \in 0 .. Len(messages) - 1 : i % 2 = 1}
Largest(S) == CHOOSE x \in S : \A y \in S : y <= x

\* C11: getLatestAI returns the entry at the largest odd 0-based index, and
\* null for a transcript of fewer than two entries: [] and [u1] give null,
\* [u1, a1] gives a1
C11_LatestAI ==
    fpc = "latest" =>
        /\ Len(fMessages) < 2 => fResult = Null
        /\ Len(fMessages) >= 2 =>
              fResult = fMessages[Largest(OddIndexes(fMessages)) + 1]
        /\ Len(fMessages) = 2 => fResult = fMessages[2]

\* getLatestAI returned the entry before the last of a transcript of
\* five entries
C11_Witness ==
    /\ fpc = "latest" /\ Len(fMessages) = 5
    /\ fResult = fMessages[4] /\ fMessages[4] # fMessages[5]

\* C12: getNthAI returns transcript[2n - 1] for every n >= 1 with 2n - 1
\* inside the transcript, and null for every other n
C12_NthAI ==
    fpc = "nth" =>
        IF fN >= 1 /\ (2 * fN) - 1 < Len(fMessages)
        THEN fResult = fMessages[((2 * fN) - 1) + 1]
        ELSE fResult = Null

\* getNthAI returned the entry at index 3 of a transcript of five entries
\* for n = 2
C12_Witness ==
    /\ fpc = "nth" /\ Len(fMessages) = 5 /\ fN = 2
    /\ fResult = fMessages[4] /\ fMessages[4] # fMessages[3] /\ fMessages[4] # fMessages[5]

(* ------------------------ claims: chat responses ---------------------- *)
\* C21: a chat request is answered once, and a failing step answers with an
\* error: the step that answers sets an outcome; the outcome is a success
\* only with a confirmed send and a reply of 5 characters or more, and only
\* then a reply text is carried; a request that fails before typing has
\* typed and sent nothing, a request whose last check did not confirm fails
\* as not sent; after the answer the request types and sends nothing and
\* the outcome stays until the handler ends; the server keeps listening
C21_ErrorResponses ==
    [][\A c \in Procs :
        /\ (cpc[c] # "responded" /\ cpc'[c] = "responded") =>
              /\ cout'[c] \in {"ok", "noinput", "navfailed", "notsent", "short"}
              /\ (cout'[c] = "ok") = (cresp'[c] # Null)
              /\ cout'[c] = "ok" =>
                    TextLen(cresp'[c]) >= 5 /\ csent[c] # "none" /\ cpc[c] = "wait"
              /\ cpc[c] = "acquired" =>
                    /\ cout'[c] \in {"noinput", "navfailed"}
                    /\ ctyped'[c] = 0 /\ csubs'[c] = 0
              /\ cpc[c] = "checkE" => cout'[c] = "notsent"
              /\ cpc[c] = "wait" => cout'[c] \in {"ok", "short"}
        /\ cpc[c] = "responded" =>
              /\ cpc'[c] \in {"responded", "idle"}
              /\ cpc'[c] = "responded" =>
                    /\ cout'[c] = cout[c] /\ cresp'[c] = cresp[c]
                    /\ ctyped'[c] = ctyped[c] /\ csubs'[c] = csubs[c]
        /\ listening'
      ]_vars
\* a request answered with an error after a confirmed send
C21_Witness ==
    /\ cpc[1] = "responded" /\ cout[1] = "short" /\ csent[1] # "none"
    /\ cresp[1] = Null /\ listening

C25_StrategyOrder ==
    [][\A c \in Procs : cpc'[c] # cpc[c] =>
          /\ cpc[c] = "click1" => cpc'[c] \in {"check1", "enter"}
          /\ cpc[c] = "click2" => cpc'[c] \in {"check2", "enter"}
          /\ cpc[c] = "click3" => cpc'[c] \in {"check3", "enter"}
          /\ cpc[c] = "enter" => cpc'[c] = "checkE"
          /\ cpc'[c] = "click1" => cpc[c] \in {"typing", "lookup"}
          /\ cpc'[c] = "click2" => cpc[c] = "check1"
          /\ cpc'[c] = "click3" => cpc[c] = "check2"
          /\ cpc'[c] = "enter" =>
                /\ cpc[c] \in {"typing", "lookup", "click1", "click2", "click3", "check3"}
                /\ csent'[c] = "none"
          /\ cpc[c] \in {"click1", "click2", "click3", "enter"} => csent[c] = "none"
          /\ cpc[c] = "check1" => cpc'[c] \in {"click2", "wait"}
          /\ cpc[c] = "check2" => cpc'[c] \in {"click3", "wait"}
          /\ cpc[c] = "check3" => cpc'[c] \in {"enter", "wait"}
          /\ cpc[c] = "checkE" => cpc'[c] \in {"wait", "responded"}
          /\ (cpc[c] \in {"check1", "check2", "check3", "checkE"} /\ cpc'[c] = "wait") =>
                csent'[c] = (CASE cpc[c] = "check1" -> "click1" [] cpc[c] = "check2" -> "click2"
                               [] cpc[c] = "check3" -> "click3" [] OTHER -> "enter")
          /\ cpc'[c] \in {"click2", "click3"} => csent'[c] = "none"
      ]_vars
\* the third click is confirmed after two unconfirmed ones
C25_Witness == cpc[1] = "wait" /\ csent[1] = "click3" /\ csubs[1] = 1

\* C26: a check confirms a send only when the input surface is empty (or
\* blank) or holds less text than was typed, never while it holds the whole
\* typed message
C26_ConfirmationSound ==
    [][\A c \in Procs :
          (csent[c] = "none" /\ csent'[c] # "none") =>
              /\ Trim(pInput) = <<>> \/ Len(pInput) < Len(cmsg[c])
              /\ pInput # cmsg[c]
      ]_vars

\* C27: a reply wait that settles returns a transcript with an assistant
\* turn after the message its request submitted: the turn it settled on was
\* not there before the send
C27_SettlesOnNewReply ==
    (wpc = "returned" /\ ~wTimedOut) => Len(wResult) >= pBase + 2

\* C28: for a transcript of user and assistant turns in alternation that
\* ends with an assistant turn, nth_response is the latest assistant turn
\* and is not null
C28_NthIsLatest ==
    (/\ fpc = "chat" /\ fMessages # <<>> /\ Len(fMessages) % 2 = 0
     /\ \A i \in DOMAIN fMessages : Truthy(fMessages[i]))
        => fResult = getLatestAI(fMessages) /\ fResult # Null

(* ---------------------- claims: navigation helpers --------------------- *)
\* C29: gotoWithRetries makes at most maxRetries attempts; it ends by
\* returning true after an attempt that found the page loaded, or by throwing
\* the error of its last attempt after maxRetries failed attempts, and in no
\* other way
C29_TwoOutcomes ==
    /\ goRun.tries <= goRun.maxRetries
    /\ goRun.pc \in {"idle", "loop", "returned", "threw"}
    /\ goRun.pc = "returned" => goRun.value = "true" /\ goRun.loaded
    /\ goRun.pc = "threw" =>
          /\ goRun.tries = goRun.maxRetries /\ ~goRun.loaded
          /\ goRun.thrown = goRun.last /\ goRun.thrown # NoError

\* C30: waitForPageReady does not throw; it returns true after a poll in
\* which the predicate held, and false after maxWaitTime elapsed with the
\* last poll not ready; an evaluation that throws is a poll that was not ready
C30_ReadyNeverThrows ==
    /\ readyRun.pc \in {"idle", "loop", "returned"}
    /\ (readyRun.pc = "returned" /\ readyRun.value) => readyRun.held
    /\ (readyRun.pc = "returned" /\ ~readyRun.value) =>
          readyRun.elapsed >= readyRun.maxWaitTime /\ ~readyRun.held
    /\ readyRun.pc = "loop" => readyRun.elapsed < readyRun.maxWaitTime /\ ~readyRun.held
\* the predicate held in a poll that followed a poll whose evaluation threw
C30_Witness ==
    readyRun.pc = "returned" /\ readyRun.value /\ readyRun.errors > 0 /\ readyRun.elapsed > 0

(* ------------------ claims: checkSecurityVerification ----------------- *)
\* the step in which the call reports that the verification completed
SecCompletes == secRun.pc # "returned" /\ secRun'.pc = "returned" /\ secRun'.how = "completed"

\* C31: checkSecurityVerification declares the verification completed only
\* on a page where no fingerprint of the initial detection matches, the
\* 'cloudflare' phrase included, and the site's own content is present.
C31_CompletionSound ==
    [][SecCompletes => ~hasSecurityVerification(secPage) /\ secPage.content]_vars

\* C32: checkSecurityVerification never throws and always returns true:
\* at once when the first evaluation finds no challenge, on completion, from
\* the catch when an evaluation throws, and otherwise when maxWait has passed,
\* at most the two waits of an iteration after it.
C32_AlwaysReturns ==
    /\ secRun.pc \in {"idle", "detect", "loop", "final", "returned"}
    /\ secRun.pc \in {"loop", "final"} => secRun.elapsed <= SecMaxWait
    /\ secRun.pc = "returned" =>
        /\ secRun.value = TRUE
        /\ secRun.how \in {"nochallenge", "completed", "timedout", "error"}
        /\ secRun.how = "nochallenge" => secRun.elapsed = 0
        /\ secRun.how = "timedout" =>
               secRun.elapsed >= SecMaxWait /\ secRun.elapsed <= SecMaxWait + 1
        /\ secRun.elapsed <= SecMaxWait + 2

\* a call that waited for the whole of maxWait on a challenge that stayed, and
\* a call whose evaluation threw in the loop: both returned
C32_Witness ==
    /\ secRun.pc = "returned"
    /\ secRun.how \in {"timedout", "error"}
    /\ secRun.elapsed >= SecMaxWait

(* ------------- claims: model selection, waitAndClick ------------------ *)
\* C33: the model selection is never fatal: it has no exit other than the
\* typing step, whatever fails (no dropdown, no option by value, no option
\* by text, a click that throws); and when the dropdown was opened and no
\* option was selected, the Escape key press was issued before the typing
\* step, and only then.
C33_SelectionNeverFatal ==
    /\ selRun.pc \in {"idle", "open", "byvalue", "bytext", "click", "escape", "typing"}
    /\ selRun.pc = "typing" =>
           (selRun.escape # "none" <=> selRun.opened /\ ~selRun.selected)
    /\ selRun.pc = "click" => clickRun.pc \in {"loop", "returned", "threw"}

\* the request reached the typing step after the dropdown had opened, no
\* option was found by value and the option found by text could not be
\* clicked in any attempt
C33_Witness ==
    /\ selRun.pc = "typing" /\ selRun.model = "other"
    /\ selRun.opened /\ ~selRun.selected /\ selRun.escape = "pressed"

\* C40: waitAndClick makes at most retries + 1 attempts; it returns after
\* the first attempt that clicks without an exception; before its k-th retry
\* it waits k times delayMs; and when every attempt failed it throws the error
\* of the last one.
C40_BoundedBackoff ==
    LET r == clickRun
        n == Len(r.log)
    IN r.pc # "idle" =>
        /\ n <= r.retries + 1
        /\ \A k \in 1 .. n - 1 : ~r.log[k]
        /\ \A k \in 1 .. Len(r.waits) : r.waits[k] = k * r.delayMs
        /\ r.pc = "loop" => Len(r.waits) = n /\ (n > 0 => ~r.log[n])
        /\ r.pc = "returned" => r.log[n] /\ Len(r.waits) = n - 1 /\ r.thrown = 0
        /\ r.pc = "threw" =>
               ~r.log[n] /\ n = r.retries + 1 /\ Len(r.waits) = r.retries /\ r.thrown = n

\* a call with the default options whose four attempts all failed, and a call
\* that clicked on a retry
C40_Witness ==
    /\ clickRun.retries = DefaultRetries
    /\ \/ clickRun.pc = "threw" /\ Len(clickRun.waits) = DefaultRetries
       \/ clickRun.pc = "returned" /\ Len(clickRun.waits) >= 2

C35_SessionCookiesKept ==
    ld.navigated =>
        \A c \in Range(ld.cookies) :
            (~Has(c, "expires") \/ c.expires \in {0, -1}) =>
                /\ c.name \notin Range(ld.expired)
                /\ ~Has(c, "partitionKey") => c.name \in PassedNames

\* C36: in a load setCookie is called only after the navigation to the root
\* origin succeeded; when that navigation fails, nothing is passed to
\* setCookie and the page gets no cookie.
C36_NavigationFirst ==
    /\ ld.called => ld.navigated
    /\ ld.pc = "setCookie" => sPage.url = "root"
    /\ (ipc = "load" /\ ~ld.navigated) =>
           ld.passed = <<>> /\ sPage.cookies = <<>> /\ ~ld.cookiesLoaded

\* a load of a file with a valid cookie whose first navigation failed ended
\* without a cookie in the page
C36_Witness ==
    /\ ipc = "load" /\ ld.pc = "done" /\ ~ld.navigated
    /\ \E i \in 1 .. Len(ld.cookies) :
          ~Has(ld.cookies[i], "partitionKey") /\ ~Has(ld.cookies[i], "expires")
    /\ sPage.cookies = <<>>

\* the awaits of the cookie step and of the localStorage replay
CookiePcs == {"goto1", "setCookie"}
ReplayPcs == {"goto2", "evaluate"}

\* C37: the two steps of loadSession are independent.  A step of the
\* localStorage replay, failed or not, leaves cookiesLoaded and the cookies
\* of the page as they are, and the load then returns cookiesLoaded; when the
\* cookie step ends, by a failure or not, and the file has localStorage
\* entries, the navigation of the replay is made next; and loadSession never
\* throws.
C37_IndependentSteps ==
    [][/\ ld'.pc # "threw"
       /\ ld.pc \in ReplayPcs =>
            /\ ld'.cookiesLoaded = ld.cookiesLoaded
            /\ sPage'.cookies = sPage.cookies
            /\ ld'.pc = "done" => ld'.ret = ld.cookiesLoaded
       /\ (ld.pc \in CookiePcs /\ ld'.pc \notin CookiePcs) =>
            IF ld.localStorage # {} THEN ld'.pc = "goto2" ELSE ld'.pc = "done"
      ]_vars

\* a load whose replay failed after its cookies were installed returned true,
\* or a load whose cookie step failed went on to a replay that succeeded
C37_Witness ==
    /\ ld.pc = "done" /\ ld.localStorage # {}
    /\ \/ ld.ret /\ sPage.cookies # <<>> /\ sPage.localStorage = {}
       \/ ~ld.cookiesLoaded /\ ld.cookies # <<>> /\ sPage.localStorage # {}

(* --------------------- claims: overlapping exports -------------------- *)
\* C38: overlapping calls of exportSession are last-writer-wins.  SESSION_FILE
\* changes only in the step in which one call writes, and then it holds the
\* whole snapshot of that call: the cookies that call read, the localStorage,
\* time and url it read, and nothing of another call's snapshot; so at any
\* time the file is the snapshot of the call that wrote last.
C38_LastWriterWins ==
    [][/\ sFile' # sFile => \E x \in Exporters : ExportWrites(x)
       /\ \A x \in Exporters : ExportWrites(x) =>
            /\ sFile' = xsnap'[x]
            /\ sFile'.shape = "session"
            /\ sFile'.cookies = xsnap[x].cookies
            /\ sFile'.localStorage = sPage.localStorage
            /\ sFile'.savedAt = clock /\ sFile'.url = sPage.url
      ]_vars

\* two exports overlapped: the second call read the cookies before the site
\* set another one, the first call read them after and wrote first, and the
\* file holds the snapshot of the second call, which wrote last
C38_Witness ==
    /\ xpc[1] = "returned" /\ xpc[2] = "returned" /\ xret[1] /\ xret[2]
    /\ Len(xsnap[2].cookies) < Len(xsnap[1].cookies)
    /\ xsnap[1].savedAt < xsnap[2].savedAt
    /\ sFile = xsnap[2]

(* -------------------- claims: the initializing flag ------------------- *)
\* C39: isInitializing is true exactly while an initialization is running
\* (started and not settled); while it is true initializationPromise is that
\* initialization; and the step that makes a new promise is the step that
\* sets the flag.
C39_FlagMeansInFlight ==
    /\ [](/\ isInitializing <=> InFlight # {}
          /\ isInitializing => InFlight = {initializationPromise})
    /\ [][initializationPromise' # initializationPromise =>
             /\ ~isInitializing /\ isInitializing'
             /\ initPc[initializationPromise'] = "none"
             /\ initPc'[initializationPromise'] = "launch"]_vars

\* a second initialization is running after the first one failed, and the
\* flag and the promise are those of the second
C39_Witness ==
    /\ initPc[1] = "rejected" /\ initPc[2] \in InFlightPcs
    /\ isInitializing /\ initializationPromise = 2

(* --------------------------- specifications --------------------------- *)
Init == InitLife /\ InitWait /\ InitChat /\ InitFn /\ InitSess /\ InitPage /\ InitGates

\* the browser lifecycle under concurrent requests
Spec == Init /\ [][NextLife]_vars

\* one reply wait against an arbitrary page
SpecWait == Init /\ [][NextWait]_vars

\* POST /chat on a ready server, from the request to the response, with
\* concurrent requests
ChatInit == InitReady /\ InitWait /\ InitChat /\ InitFn /\ InitSessReady /\ InitPage /\ InitGates
SpecChat == ChatInit /\ [][NextChat]_vars

\* one POST /chat on a ready server while other requests use the page
SpecSend == ChatInit /\ [][NextSend]_vars

\* timers fire and evaluations settle
SpecWaitFair == SpecWait /\ WF_vars(NextWait)

\* calls of getLatestAI and getNthAI on arbitrary arguments
FnInit == InitLife /\ InitWait /\ InitChat /\ InitArgs /\ InitSess /\ InitPage /\ InitGates
SpecFn == FnInit /\ [][NextFn]_vars

\* the session steps of one initialization on any session file
SessionInit == InitLife /\ InitWait /\ InitChat /\ InitFn /\ InitLoad /\ InitPage /\ InitGates
SpecSession == SessionInit /\ [][NextSession]_vars

\* the exports and backups of a server from its first export on
ExportInit == InitLife /\ InitWait /\ InitChat /\ InitFn /\ InitExport /\ InitPage /\ InitGates
SpecExport == ExportInit /\ [][NextExport]_vars

\* a startup that finds no session file, or a snapshot of one cookie and one
\* localStorage entry, followed by requests
StartInit ==
    /\ InitStarting /\ InitWait /\ InitChat /\ InitFn /\ InitLoad /\ InitPage /\ InitGates
    /\ sFile \in {NoFile, SessionFile(<<[name |-> "1", domain |-> ".lmarena.ai"]>>,
                                       {"k"}, 0, "direct")}
SpecStart == StartInit /\ [][NextStart]_vars

\* the reply wait on a page with a conversation
SpecReply == Init /\ [][NextReply]_vars

\* calls of gotoWithRetries and of waitForPageReady
SpecGates == Init /\ [][NextGates]_vars
SpecSec == Init /\ [][NextSec]_vars
SpecSelect == Init /\ [][NextSelect]_vars
\* overlapping exports on a ready server
SpecOverlap == ChatInit /\ [][NextOverlap]_vars
====
